---- MODULE Spec2Model ----
(***************************************************************************)
(* A model of the OpenFang runtime core: the Markdown-aware stream chunker *)
(* (openfang-api/src/stream_chunker.rs), the hand registry                 *)
(* (openfang-hands/src/registry.rs), the browser session manager           *)
(* (openfang-runtime/src/browser.rs), the Anthropic driver                 *)
(* (openfang-runtime/src/drivers/anthropic.rs) and the context overflow    *)
(* recovery and context guard (openfang-runtime/src/context_overflow.rs,   *)
(* context_budget.rs).  Each subsystem has its own specification; the      *)
(* variables of the other subsystems stay at their initial values.         *)
(***************************************************************************)
EXTENDS Integers, Sequences, FiniteSets, TLC

VARIABLES
    \* ---- StreamChunker (stream_chunker.rs:11-17) and its observers
    buffer,            \* StreamChunker.buffer, a sequence of bytes
    in_code_fence,     \* StreamChunker.in_code_fence
    fence_marker,      \* StreamChunker.fence_marker
    min_chunk_chars,   \* StreamChunker.min_chunk_chars
    max_chunk_chars,   \* StreamChunker.max_chunk_chars
    ck_op,             \* the last call made on the chunker
    ck_ret,            \* what the last try_flush / flush_remaining returned
    ck_kind,           \* which branch of try_flush produced ck_ret
    pushed,            \* concatenation of every text pushed so far
    emitted,           \* concatenation of every chunk returned so far
    n_forced,          \* number of force-close splits taken so far
    n_pushes,          \* number of push calls so far
    \* ---- HandRegistry (registry.rs:39-44) and its observers
    instances,         \* HandRegistry.instances: instance id -> HandInstance
    hr_op,             \* the last registry call, with its arguments
    hr_ret,            \* what the last registry call returned
    hr_clock,          \* chrono::Utc::now(), one tick per registry call
    hr_uuids,          \* number of instance ids Uuid::new_v4 has produced
    hr_scan,           \* the activate call each thread is in the middle of
    \* ---- BrowserManager (browser.rs:783-786) and its callers
    sessions,          \* BrowserManager.sessions: agent id -> session id
    procs,             \* every Chromium process spawned, by id: the agent
                       \* it was spawned for, whether it is alive, who owns
                       \* it, and the Arc count and mutex of its session
    bm_pc,             \* where each calling task stands in its call
    bm_call,           \* the call each task is making
    bm_sess,           \* the session (Arc clone) each task holds, or 0
    bm_ret,            \* what each task's last call returned
    bm_event,          \* the last thing that happened, for the observers
    navigated,         \* the URLs Page.navigate was sent for
    bm_calls,          \* number of calls started so far
    \* ---- AnthropicDriver::complete and ::stream (anthropic.rs:154-543)
    dr_mode,           \* the call in progress: "complete" or "stream"
    dr_pc,             \* where the call stands
    attempt,           \* the loop variable of the retry loop
    dr_statuses,       \* the outcome of every HTTP attempt of the call
    dr_waits,          \* every tokio::time::sleep of the call, in ms
    dr_vendor,         \* the content blocks of the vendor's 200 response
    dr_events,         \* the SSE events of the response not yet parsed
    blocks,            \* stream: Vec<ContentBlockAccum>
    stop_reason,       \* stream: stop_reason
    dr_sink,           \* the StreamEvents sent to tx, in order
    dr_ret,            \* what the call returned
    \* ---- recover_from_overflow and apply_context_guard
    messages,          \* the message history (Vec<Message>)
    ov_input,          \* the history as it was given to the call
    ov_op,             \* the function called, or "none"
    context_window,    \* the context window of the call, in tokens
    ov_ret,            \* what the call returned
    \* ---- CdpConnection (browser.rs:85-90), its reader task and callers
    next_id,           \* CdpConnection.next_id (AtomicU64)
    pending,           \* the ids CdpConnection.pending holds a sender for
    cdp_rx,            \* the one-shot channel of every id: what was sent
    cdp_pc,            \* where each caller of send stands
    cdp_id,            \* the id each caller's send took
    cdp_ret,           \* what each caller's last send returned
    reader_alive,      \* whether reader_loop is still running
    cdp_event,         \* the last frame the reader handled and its fate
    cdp_routed,        \* the ids of the frames put into a channel, in order
    \* ---- wrap_external_content (web_content.rs:49-57)
    wc_url,            \* the source_url of the call
    wc_content,        \* the content of the call, as its lines
    wc_out             \* the String returned, as its lines; << >> before

chunkerVars == <<buffer, in_code_fence, fence_marker, min_chunk_chars,
                 max_chunk_chars, ck_op, ck_ret, ck_kind, pushed, emitted,
                 n_forced, n_pushes>>

handVars == <<instances, hr_op, hr_ret, hr_clock, hr_uuids, hr_scan>>

browserVars == <<sessions, procs, bm_pc, bm_call, bm_sess, bm_ret, bm_event,
                 navigated, bm_calls>>

driverVars == <<dr_mode, dr_pc, attempt, dr_statuses, dr_waits, dr_vendor,
                dr_events, blocks, stop_reason, dr_sink, dr_ret>>

overflowVars == <<messages, ov_input, ov_op, context_window, ov_ret>>

cdpVars == <<next_id, pending, cdp_rx, cdp_pc, cdp_id, cdp_ret, reader_alive,
             cdp_event, cdp_routed>>

vars == <<chunkerVars, handVars, browserVars, driverVars, overflowVars,
          cdpVars, wc_url, wc_content, wc_out>>

\* What each subsystem leaves alone: the variables of the others.
notChunker == <<handVars, browserVars, driverVars, overflowVars, cdpVars,
    wc_url, wc_content, wc_out>>

notHands == <<chunkerVars, browserVars, driverVars, overflowVars, cdpVars,
    wc_url, wc_content, wc_out>>

notBrowser == <<chunkerVars, handVars, driverVars, overflowVars, cdpVars,
    wc_url, wc_content, wc_out>>

notDriver == <<chunkerVars, handVars, browserVars, overflowVars, cdpVars,
    wc_url, wc_content, wc_out>>

notOverflow == <<chunkerVars, handVars, browserVars, driverVars, cdpVars,
    wc_url, wc_content, wc_out>>

notCdp == <<chunkerVars, handVars, browserVars, driverVars, overflowVars,
    wc_url, wc_content, wc_out>>

(***************************************************************************)
(* Generic helpers.                                                        *)
(***************************************************************************)
Min(a, b) == IF a <= b THEN a ELSE b

\* Option::None of the source.
None == "None"

\* No position found (Option::None of rfind / find).
NoPos == -1

(***************************************************************************)
(* Strings.  A Rust String is modelled as the sequence of its bytes; a     *)
(* byte is a one-character string, except the two bytes of a two-byte      *)
(* UTF-8 character, written "e1" (lead byte) and "e2" (continuation byte), *)
(* and the backtick, written "BT".                                         *)
(* Offsets are 0-based byte offsets as in the source.                      *)
(***************************************************************************)
\* The byte of a backtick.
Backtick == "BT"

\* &t[a..b]
Slice(t, a, b) == SubSeq(t, a + 1, b)

\* str::is_char_boundary
IsCharBoundary(t, i) ==
    \/ i = 0
    \/ i = Len(t)
    \/ (i > 0 /\ i < Len(t) /\ t[i + 1] # "e2")

\* A slice &t[a..b] that does not panic.
SliceOk(t, a, b) ==
    a <= b /\ b <= Len(t) /\ IsCharBoundary(t, a) /\ IsCharBoundary(t, b)

\* str::starts_with
StartsWith(t, p) == Len(p) <= Len(t) /\ SubSeq(t, 1, Len(p)) = p

\* str::rfind of a pattern: the 0-based offset of the last occurrence.
RFind(t, p) ==
    LET hits == {i \in 0..(Len(t) - Len(p)) : Slice(t, i, i + Len(p)) = p}
    IN  IF hits = {} THEN NoPos ELSE CHOOSE i \in hits : \A j \in hits : j <= i

\* str::find of a pattern: the 0-based offset of the first occurrence.
Find(t, p) ==
    LET hits == {i \in 0..(Len(t) - Len(p)) : Slice(t, i, i + Len(p)) = p}
    IN  IF hits = {} THEN NoPos ELSE CHOOSE i \in hits : \A j \in hits : i <= j

\* str::trim: leading and trailing whitespace removed
Trim(t) ==
    LET white(c) == c \in {" ", "\n", "\t"}
        RECURSIVE start(_)
        start(u) == IF u # <<>> /\ white(Head(u)) THEN start(Tail(u)) ELSE u
        RECURSIVE end(_)
        end(u) == IF u # <<>> /\ white(u[Len(u)])
                  THEN end(SubSeq(u, 1, Len(u) - 1))
                  ELSE u
    IN  end(start(t))

\* str::trim_start_matches of the backtick
RECURSIVE TrimStartBackticks(_)
TrimStartBackticks(t) ==
    IF t # <<>> /\ Head(t) = Backtick THEN TrimStartBackticks(Tail(t)) ELSE t

\* str::split_inclusive('\n'): the lines of t, each keeping its newline.
RECURSIVE SplitInclusive(_)
SplitInclusive(t) ==
    IF t = <<>> THEN <<>>
    ELSE LET nl == Find(t, <<"\n">>)
         IN  IF nl = NoPos THEN <<t>>
             ELSE <<Slice(t, 0, nl + 1)>> \o SplitInclusive(Slice(t, nl + 1, Len(t)))

\* Concatenation of a sequence of texts.
RECURSIVE Concat(_)
Concat(ts) == IF ts = <<>> THEN <<>> ELSE Head(ts) \o Concat(Tail(ts))

Backticks3 == <<Backtick, Backtick, Backtick>>

(***************************************************************************)
(* StreamChunker.                                                          *)
(***************************************************************************)
\* The fence tracking of push for one line (stream_chunker.rs:34-48), on a
\* record [buffer, in_code_fence, fence_marker].
PushLine(st, line) ==
    LET trimmed == Trim(line)
        buf == st.buffer \o line
    IN  IF StartsWith(trimmed, Backticks3)
        THEN IF st.in_code_fence
             THEN IF trimmed = Backticks3 \/ StartsWith(trimmed, st.fence_marker)
                  THEN [buffer |-> buf, in_code_fence |-> FALSE, fence_marker |-> <<>>]
                  ELSE [st EXCEPT !.buffer = buf]
             ELSE [buffer |-> buf, in_code_fence |-> TRUE, fence_marker |-> Backticks3]
        ELSE [st EXCEPT !.buffer = buf]

\* The loop of push over the lines of the pushed text.
RECURSIVE PushLines(_, _)
PushLines(st, lines) ==
    IF lines = <<>> THEN st
    ELSE PushLines(PushLine(st, Head(lines)), Tail(lines))

\* StreamChunker::push
PushText(st, text) == PushLines(st, SplitInclusive(text))

\* find_last_in_range (stream_chunker.rs:143-146); the caller has checked
\* that the slice does not panic.
FindLastInRange(text, pattern, start, end) ==
    LET pos == RFind(Slice(text, start, Min(end, Len(text))), pattern)
    IN  IF pos = NoPos THEN NoPos ELSE start + pos

\* The sentence endings of priority 3, in the order the source tries them.
SentenceEndings == << <<".", " ">>, <<"!", " ">>, <<"?", " ">> >>

\* The forced break of priority 4 (stream_chunker.rs:107-113).
RECURSIVE BackToBoundary(_, _)
BackToBoundary(t, at) ==
    IF at > 0 /\ ~IsCharBoundary(t, at) THEN BackToBoundary(t, at - 1) ELSE at

ForcedBreakAt(buf, maxc) ==
    LET b == BackToBoundary(buf, maxc)
    IN  IF b = 0 THEN Len(buf) ELSE b

\* Where try_flush breaks outside a fence (stream_chunker.rs:76-119):
\* [kind, at], kind "none" when it returns None.
BreakPoint(buf, minc, maxc) ==
    LET end  == Min(Len(buf), maxc)
        para == FindLastInRange(buf, <<"\n", "\n">>, minc, end)
        nl   == FindLastInRange(buf, <<"\n">>, minc, end)
        sent == {k \in 1..Len(SentenceEndings) :
                    FindLastInRange(buf, SentenceEndings[k], minc, end) # NoPos}
        k1   == CHOOSE k \in sent : \A j \in sent : k <= j
    IN  IF para # NoPos THEN [kind |-> "paragraph", at |-> para + 2]
        ELSE IF nl # NoPos THEN [kind |-> "newline", at |-> nl + 1]
        ELSE IF sent # {}
             THEN [kind |-> "sentence",
                   at |-> FindLastInRange(buf, SentenceEndings[k1], minc, end)
                          + Len(SentenceEndings[k1])]
        ELSE IF Len(buf) >= maxc
             THEN [kind |-> "max", at |-> ForcedBreakAt(buf, maxc)]
        ELSE [kind |-> "none", at |-> 0]

\* A break that loses the byte at the break point.
RemainderSkipsByte(buf, at) == Slice(buf, Min(at + 1, Len(buf)), Len(buf))

\* self.buffer = self.buffer[break_at..].to_string()
Remainder(buf, at) == Slice(buf, at, Len(buf))

\* StreamChunker::try_flush (stream_chunker.rs:56-120) on the chunker state:
\* [kind, ret, buffer], the branch taken, the value returned and the buffer
\* left.  kind "panic" is a slice-range or character-boundary failure of
\* the slice taken in find_last_in_range.
TryFlushResult(buf, fence, marker, minc, maxc) ==
    IF Len(buf) < minc
    THEN [kind |-> "none", ret |-> None, buffer |-> buf]
    ELSE IF fence /\ Len(buf) < maxc
    THEN [kind |-> "none", ret |-> None, buffer |-> buf]
    ELSE IF fence /\ Len(buf) >= maxc
    THEN [kind |-> "force",
          ret |-> buf \o <<"\n", Backtick, Backtick, Backtick, "\n">>,
          buffer |-> Backticks3 \o TrimStartBackticks(marker) \o <<"\n">>]
    ELSE IF ~SliceOk(buf, minc, Min(Len(buf), maxc))
    THEN [kind |-> "panic", ret |-> None, buffer |-> buf]
    ELSE LET bp == BreakPoint(buf, minc, maxc)
         IN  IF bp.kind = "none"
             THEN [kind |-> "none", ret |-> None, buffer |-> buf]
             ELSE [kind |-> bp.kind,
                   ret |-> Slice(buf, 0, bp.at),
                   buffer |-> Remainder(buf, bp.at)]

(***************************************************************************)
(* Bounds and inputs of the chunker specification.                         *)
(***************************************************************************)
\* Most push calls in one run.
MaxPushes == 4

\* Most bytes emitted in one run (the force-close split can repeat forever).
MaxEmitted == 12

\* The texts a push may carry.
PushTexts ==
    { <<Backtick, Backtick, Backtick, "\n">>,
      <<Backtick, Backtick, Backtick, "p", "\n">>,
      <<"a", "\n">>,
      <<"a">>,
      <<".", " ">>,
      <<"e1", "e2">>,
      <<"\n">> }

\* The (min_chunk_chars, max_chunk_chars) configurations.
ChunkerConfigs == { <<1, 6>>, <<2, 4>> }

\* StreamChunker::new (stream_chunker.rs:21-29)
ChunkerInit ==
    /\ \E c \in ChunkerConfigs :
          /\ min_chunk_chars = c[1]
          /\ max_chunk_chars = c[2]
    /\ buffer = <<>>
    /\ in_code_fence = FALSE
    /\ fence_marker = <<>>
    /\ ck_op = "new"
    /\ ck_ret = None
    /\ ck_kind = "none"
    /\ pushed = <<>>
    /\ emitted = <<>>
    /\ n_forced = 0
    /\ n_pushes = 0

\* The chunker is still in use: flush_remaining ends a run, a panic too.
ChunkerLive == ck_op # "flush_remaining" /\ ck_kind # "panic"

\* StreamChunker::push (stream_chunker.rs:32-50)
Push ==
    /\ ChunkerLive
    /\ n_pushes < MaxPushes
    /\ n_pushes' = n_pushes + 1
    /\ \E text \in PushTexts :
          /\ LET st == PushText([buffer |-> buffer,
                                 in_code_fence |-> in_code_fence,
                                 fence_marker |-> fence_marker], text)
             IN  /\ buffer' = st.buffer
                 /\ in_code_fence' = st.in_code_fence
                 /\ fence_marker' = st.fence_marker
          /\ pushed' = pushed \o text
    /\ ck_op' = "push"
    /\ ck_ret' = None
    /\ ck_kind' = "none"
    /\ UNCHANGED <<min_chunk_chars, max_chunk_chars, emitted, n_forced>>
    /\ UNCHANGED notChunker

\* StreamChunker::try_flush (stream_chunker.rs:56-120)
TryFlush ==
    /\ ChunkerLive
    /\ Len(emitted) <= MaxEmitted
    /\ LET r == TryFlushResult(buffer, in_code_fence, fence_marker,
                               min_chunk_chars, max_chunk_chars)
       IN  /\ buffer' = r.buffer
           /\ ck_ret' = r.ret
           /\ ck_kind' = r.kind
           /\ emitted' = IF r.ret = None THEN emitted ELSE emitted \o r.ret
           /\ n_forced' = IF r.kind = "force" THEN n_forced + 1 ELSE n_forced
    /\ ck_op' = "try_flush"
    /\ UNCHANGED <<in_code_fence, fence_marker, min_chunk_chars,
                   max_chunk_chars, pushed, n_pushes>>
    /\ UNCHANGED notChunker

\* StreamChunker::flush_remaining (stream_chunker.rs:123-129)
FlushRemaining ==
    /\ ChunkerLive
    /\ ck_ret' = IF buffer = <<>> THEN None ELSE buffer
    /\ emitted' = emitted \o buffer
    /\ buffer' = <<>>
    /\ ck_op' = "flush_remaining"
    /\ ck_kind' = "none"
    /\ UNCHANGED <<in_code_fence, fence_marker, min_chunk_chars,
                   max_chunk_chars, pushed, n_forced, n_pushes>>
    /\ UNCHANGED notChunker

\* The chunker is not in use.
ChunkerIdle ==
    /\ min_chunk_chars = 0
    /\ max_chunk_chars = 0
    /\ buffer = <<>>
    /\ in_code_fence = FALSE
    /\ fence_marker = <<>>
    /\ ck_op = "new"
    /\ ck_ret = None
    /\ ck_kind = "none"
    /\ pushed = <<>>
    /\ emitted = <<>>
    /\ n_forced = 0
    /\ n_pushes = 0

ChunkerNext == Push \/ TryFlush \/ FlushRemaining

(***************************************************************************)
(* HandRegistry.                                                           *)
(***************************************************************************)
\* Most registry calls in one run.
MaxHandOps == 5

\* HandRegistry.definitions after load_bundled: the known hand ids.
definitions == {"clip", "lead"}

\* A caller may pass the known hand ids and an unknown one, and as instance
\* id every id issued so far (of a live or of a removed instance) and 0,
\* the id of no instance.

\* HandStatus
Status(tag, msg) == [tag |-> tag, msg |-> msg]

\* HandInstance::new: Active, no agent, both timestamps now.
NewInstance(hand_id, config, now) ==
    [hand_id |-> hand_id, agent_id |-> None, status |-> Status("Active", ""),
     config |-> config, activated_at |-> now, updated_at |-> now]

\* HandResult
Ok(v) == [ok |-> TRUE, val |-> v]

Err(kind, arg) == [ok |-> FALSE, val |-> <<kind, arg>>]

\* DashMap::insert, DashMap::remove
MapInsertOnly(m, k, v) == [x \in {k} |-> v]

MapInsert(m, k, v) == [x \in DOMAIN m \cup {k} |-> IF x = k THEN v ELSE m[x]]

MapRemoveAll(m, k) == [x \in {} |-> m[x]]

MapRemove(m, k) == [x \in DOMAIN m \ {k} |-> m[x]]

\* HandRegistry::find_by_agent (registry.rs:154-161): the instances the
\* scan may return, none when the set is empty.
FindByAgent(m, agent) == {i \in DOMAIN m : m[i].agent_id = agent}

\* The scan of activate for an Active instance of the hand (registry.rs:98-102).
HasActive(m, hand_id) ==
    \E i \in DOMAIN m : m[i].hand_id = hand_id /\ m[i].status = Status("Active", "")

\* HandRegistry::new (registry.rs:48-53), the bundled definitions loaded.
HandsInit ==
    /\ instances = << >>
    /\ hr_op = <<"new">>
    /\ hr_ret = Ok(None)
    /\ hr_clock = 0
    /\ hr_uuids = 0
    /\ hr_scan = [th \in {1, 2} |-> [pc |-> "idle", hand_id |-> "", config |-> ""]]

\* One more call on the registry: its name and arguments, and the clock.
HandCall(op) ==
    /\ hr_clock < MaxHandOps
    /\ hr_clock' = hr_clock + 1
    /\ hr_op' = op
    /\ UNCHANGED hr_scan
    /\ UNCHANGED notHands

\* The entry update shared by pause, resume, set_agent, set_error and
\* update_config: get_mut(instance_id), or InstanceNotFound.
UpdateEntryTouchAll(id, field, value) ==
    IF id \in DOMAIN instances
    THEN /\ instances' = [instances EXCEPT ![id] =
                             [@ EXCEPT ![field] = value,
                                       !.updated_at = hr_clock']]
         /\ hr_ret' = Ok(None)
    ELSE /\ instances' = [i \in DOMAIN instances |->
                             [instances[i] EXCEPT !.updated_at = hr_clock']]
         /\ hr_ret' = Err("InstanceNotFound", id)

UpdateEntry(id, field, value) ==
    IF id \in DOMAIN instances
    THEN /\ instances' = [instances EXCEPT ![id] =
                             [@ EXCEPT ![field] = value,
                                       !.updated_at = hr_clock']]
         /\ hr_ret' = Ok(None)
    ELSE /\ instances' = instances
         /\ hr_ret' = Err("InstanceNotFound", id)

\* HandRegistry::activate (registry.rs:87-109)
Activate ==
    \E hand_id \in (definitions \cup {"nonexistent"}), config \in {"cfg0", "cfg1"} :
        /\ HandCall(<<"activate", hand_id, config>>)
        /\ IF hand_id \notin definitions
           THEN /\ hr_ret' = Err("NotFound", hand_id)
                /\ UNCHANGED <<instances, hr_uuids>>
           ELSE IF HasActive(instances, hand_id)
           THEN /\ hr_ret' = Err("AlreadyActive", hand_id)
                /\ UNCHANGED <<instances, hr_uuids>>
           ELSE LET id == hr_uuids + 1
                    instance == NewInstance(hand_id, config, hr_clock')
                IN  /\ hr_uuids' = id
                    /\ instances' = MapInsert(instances, id, instance)
                    /\ hr_ret' = Ok(<<id, instance>>)

\* activate called from two threads (&self): the look-up and the scan for
\* an Active instance (registry.rs:92-102) are one step, the insert
\* (registry.rs:104-108) is a later one.
ActivateScan(th) ==
    \E hand_id \in (definitions \cup {"nonexistent"}), config \in {"cfg0", "cfg1"} :
        /\ hr_scan[th].pc = "idle"
        /\ hr_clock < MaxHandOps
        /\ hr_clock' = hr_clock + 1
        /\ IF hand_id \notin definitions
           THEN /\ hr_ret' = Err("NotFound", hand_id)
                /\ hr_op' = <<"activate", hand_id, config>>
                /\ hr_scan' = hr_scan
           ELSE IF HasActive(instances, hand_id)
           THEN /\ hr_ret' = Err("AlreadyActive", hand_id)
                /\ hr_op' = <<"activate", hand_id, config>>
                /\ hr_scan' = hr_scan
           ELSE /\ hr_ret' = hr_ret
                /\ hr_op' = <<"activate_scan", hand_id, config>>
                /\ hr_scan' = [hr_scan EXCEPT ![th] =
                       [pc |-> "scanned", hand_id |-> hand_id, config |-> config]]
        /\ UNCHANGED <<instances, hr_uuids>>
        /\ UNCHANGED notHands

ActivateInsert(th) ==
    /\ hr_scan[th].pc = "scanned"
    /\ hr_clock' = hr_clock + 1
    /\ LET id == hr_uuids + 1
           instance == NewInstance(hr_scan[th].hand_id, hr_scan[th].config, hr_clock')
       IN  /\ hr_uuids' = id
           /\ instances' = MapInsert(instances, id, instance)
           /\ hr_ret' = Ok(<<id, instance>>)
    /\ hr_op' = <<"activate", hr_scan[th].hand_id, hr_scan[th].config>>
    /\ hr_scan' = [hr_scan EXCEPT ![th] = [pc |-> "idle", hand_id |-> "", config |-> ""]]
    /\ UNCHANGED notHands

\* HandRegistry::deactivate (registry.rs:112-119)
Deactivate ==
    \E id \in 0..hr_uuids :
        /\ HandCall(<<"deactivate", id>>)
        /\ IF id \in DOMAIN instances
           THEN /\ instances' = MapRemove(instances, id)
                /\ hr_ret' = Ok(<<id, instances[id]>>)
           ELSE /\ instances' = instances
                /\ hr_ret' = Err("InstanceNotFound", id)
        /\ UNCHANGED hr_uuids

\* HandRegistry::pause (registry.rs:122-130)
PauseClearsAgent ==
    \E id \in 0..hr_uuids :
        /\ HandCall(<<"pause", id>>)
        /\ IF id \in DOMAIN instances
           THEN /\ instances' = [instances EXCEPT ![id] =
                       [@ EXCEPT !.status = Status("Paused", ""),
                                 !.agent_id = None,
                                 !.updated_at = hr_clock']]
                /\ hr_ret' = Ok(None)
           ELSE /\ instances' = instances
                /\ hr_ret' = Err("InstanceNotFound", id)
        /\ UNCHANGED hr_uuids

Pause ==
    \E id \in 0..hr_uuids :
        /\ HandCall(<<"pause", id>>)
        /\ UpdateEntry(id, "status", Status("Paused", ""))
        /\ UNCHANGED hr_uuids

\* HandRegistry::resume (registry.rs:133-141)
Resume ==
    \E id \in 0..hr_uuids :
        /\ HandCall(<<"resume", id>>)
        /\ UpdateEntry(id, "status", Status("Active", ""))
        /\ UNCHANGED hr_uuids

\* HandRegistry::set_agent (registry.rs:144-152)
SetAgent ==
    \E id \in 0..hr_uuids, agent \in {"agent1", "agent2"} :
        /\ HandCall(<<"set_agent", id, agent>>)
        /\ UpdateEntry(id, "agent_id", agent)
        /\ UNCHANGED hr_uuids

\* HandRegistry::update_config (registry.rs:234-246)
UpdateConfig ==
    \E id \in 0..hr_uuids, config \in {"cfg0", "cfg1"} :
        /\ HandCall(<<"update_config", id, config>>)
        /\ UpdateEntry(id, "config", config)
        /\ UNCHANGED hr_uuids

\* HandRegistry::set_error (registry.rs:249-257)
SetError ==
    \E id \in 0..hr_uuids, message \in {"something broke"} :
        /\ HandCall(<<"set_error", id, message>>)
        /\ UpdateEntry(id, "status", Status("Error", message))
        /\ UNCHANGED hr_uuids

\* check_requirement (registry.rs:267-280) in an environment env, a
\* function from variable names to a value or None when unset; on_path
\* says whether which_binary finds the binary.
CheckRequirement(req, env, on_path) ==
    IF req.requirement_type = "Binary" THEN on_path
    ELSE env[req.check_value] \notin {None, ""}

\* HandRegistry::check_requirements (registry.rs:175-191) for a hand that
\* requires req, in the environment of the process.
CheckRequirements ==
    \E hand_id \in (definitions \cup {"nonexistent"}),
       requirement_type \in {"Binary", "EnvVar", "ApiKey"},
       check_value \in {"GEMINI_API_KEY", "GOOGLE_API_KEY", "OTHER_KEY"},
       env \in [{"GEMINI_API_KEY", "GOOGLE_API_KEY", "OTHER_KEY"} -> {None, "", "k"}] :
    \E on_path \in IF requirement_type = "Binary" THEN BOOLEAN ELSE {FALSE} :
        LET req == [requirement_type |-> requirement_type, check_value |-> check_value]
        IN  /\ HandCall(<<"check_requirements", hand_id, req, env>>)
            /\ hr_ret' = IF hand_id \notin definitions THEN Err("NotFound", hand_id)
                         ELSE Ok(<<req, CheckRequirement(req, env, on_path)>>)
            /\ UNCHANGED <<instances, hr_uuids>>

\* The registry calls, one at a time (a serialized trace).
HandsNext ==
    \/ Activate
    \/ Deactivate
    \/ Pause
    \/ Resume
    \/ SetAgent
    \/ UpdateConfig
    \/ SetError

(***************************************************************************)
(* BrowserManager: concurrent tasks calling send_command, close_session    *)
(* and tool_browser_navigate.  A task's call is a sequence of steps, one   *)
(* per access to shared state or suspension point (.await).                *)
(***************************************************************************)
\* Most calls started in one run, and most Chromium processes spawned.
MaxBrowserCalls == 3

MaxProcs == 2

\* BrowserConfig.max_sessions
max_sessions == 1

\* The tasks that call the manager concurrently.
Tasks == {1, 2}

BrowserAgents == {"a1", "a2"}

\* crate::web_fetch::check_ssrf: Ok for a public URL, Err for a private,
\* loopback or metadata address.
CheckSsrf(url) == url # "http://169.254.169.254/"

\* BrowserCommand: Navigate{url} of a public page or of the metadata
\* address, another page command, or Close.
Commands ==
    {[action |-> "Navigate", url |-> u] :
        u \in {"https://example.com/", "http://169.254.169.254/"}}
        \cup {[action |-> "ReadPage", url |-> ""], [action |-> "Close", url |-> ""]}

NoCall == [op |-> "none", agent |-> "", cmd |-> [action |-> "", url |-> ""]]

\* BrowserManager::new (browser.rs:790-795)
BrowserInit ==
    /\ sessions = << >>
    /\ procs = << >>
    /\ bm_pc = [t \in Tasks |-> "idle"]
    /\ bm_call = [t \in Tasks |-> NoCall]
    /\ bm_sess = [t \in Tasks |-> 0]
    /\ bm_ret = [t \in Tasks |-> None]
    /\ bm_event = <<"new">>
    /\ navigated = {}
    /\ bm_calls = 0

\* Dropping one Arc of session p: the last one drops the BrowserSession,
\* whose Drop kills the process (browser.rs:650-654).
DropArc(ps, p) ==
    IF ps[p].refs = 1
    THEN [ps EXCEPT ![p].refs = 0, ![p].alive = FALSE, ![p].owner = "dropped"]
    ELSE [ps EXCEPT ![p].refs = @ - 1]

\* A task starts send_command(agent, cmd) (browser.rs:803-807).
StartSendCommand(t) ==
    /\ bm_pc[t] = "idle"
    /\ bm_calls < MaxBrowserCalls
    /\ \E agent \in BrowserAgents, cmd \in Commands :
          bm_call' = [bm_call EXCEPT ![t] =
                         [op |-> "send_command", agent |-> agent, cmd |-> cmd]]
    /\ bm_pc' = [bm_pc EXCEPT ![t] = "get"]
    /\ bm_calls' = bm_calls + 1
    /\ bm_ret' = [bm_ret EXCEPT ![t] = None]
    /\ bm_event' = <<"step">>
    /\ UNCHANGED <<sessions, procs, bm_sess, navigated>>
    /\ UNCHANGED notBrowser

\* tool_browser_navigate (browser.rs:858-873): check_ssrf(url)?, then
\* send_command(agent, Navigate{url}).
ToolBrowserNavigate(t) ==
    /\ bm_pc[t] = "idle"
    /\ bm_calls < MaxBrowserCalls
    /\ bm_calls' = bm_calls + 1
    /\ \E agent \in BrowserAgents,
          url \in {"https://example.com/", "http://169.254.169.254/"} :
          IF CheckSsrf(url)
          THEN /\ bm_call' = [bm_call EXCEPT ![t] =
                                 [op |-> "tool_browser_navigate", agent |-> agent,
                                  cmd |-> [action |-> "Navigate", url |-> url]]]
               /\ bm_pc' = [bm_pc EXCEPT ![t] = "get"]
               /\ bm_ret' = [bm_ret EXCEPT ![t] = None]
               /\ bm_event' = <<"step">>
          ELSE /\ bm_ret' = [bm_ret EXCEPT ![t] = Err("ssrf", None)]
               /\ bm_event' = <<"ssrf_rejected", url>>
               /\ UNCHANGED <<bm_call, bm_pc>>
    /\ UNCHANGED <<sessions, procs, bm_sess, navigated>>
    /\ UNCHANGED notBrowser

\* get_or_create, the lookup (browser.rs:836-838): an existing session is
\* cloned (one more Arc).
GetSession(t) ==
    /\ bm_pc[t] = "get"
    /\ LET agent == bm_call[t].agent
       IN  IF agent \in DOMAIN sessions
           THEN /\ bm_sess' = [bm_sess EXCEPT ![t] = sessions[agent]]
                /\ procs' = [procs EXCEPT ![sessions[agent]].refs = @ + 1]
                /\ bm_pc' = [bm_pc EXCEPT ![t] = "lock"]
           ELSE /\ bm_pc' = [bm_pc EXCEPT ![t] = "capacity"]
                /\ UNCHANGED <<bm_sess, procs>>
    /\ bm_event' = <<"step">>
    /\ UNCHANGED <<sessions, bm_call, bm_ret, navigated, bm_calls>>
    /\ UNCHANGED notBrowser

\* get_or_create, the capacity check (browser.rs:840-845).
CheckCapacity(t) ==
    /\ bm_pc[t] = "capacity"
    /\ IF Cardinality(DOMAIN sessions) >= max_sessions
       THEN /\ bm_pc' = [bm_pc EXCEPT ![t] = "idle"]
            /\ bm_ret' = [bm_ret EXCEPT ![t] = Err("capacity", None)]
            /\ bm_call' = [bm_call EXCEPT ![t] = NoCall]
            /\ bm_event' = <<"capacity_rejected", bm_call[t].agent>>
       ELSE /\ bm_pc' = [bm_pc EXCEPT ![t] = "spawn"]
            /\ bm_ret' = bm_ret
            /\ bm_call' = bm_call
            /\ bm_event' = <<"step">>
    /\ UNCHANGED <<sessions, procs, bm_sess, navigated, bm_calls>>
    /\ UNCHANGED notBrowser

\* BrowserSession::launch up to the spawn (browser.rs:237-292): Chromium
\* is found and spawned, or the launch fails with nothing spawned.
LaunchSpawn(t) ==
    /\ bm_pc[t] = "spawn"
    /\ \/ /\ Len(procs) < MaxProcs
          /\ procs' = Append(procs, [agent |-> bm_call[t].agent, alive |-> TRUE,
                                     owner |-> "child", refs |-> 0, holder |-> 0])
          /\ bm_sess' = [bm_sess EXCEPT ![t] = Len(procs) + 1]
          /\ bm_pc' = [bm_pc EXCEPT ![t] = "connect"]
          /\ bm_ret' = bm_ret
          /\ bm_call' = bm_call
          /\ bm_event' = <<"step">>
       \/ /\ bm_pc' = [bm_pc EXCEPT ![t] = "idle"]
          /\ bm_ret' = [bm_ret EXCEPT ![t] = Err("launch", None)]
          /\ bm_call' = [bm_call EXCEPT ![t] = NoCall]
          /\ bm_event' = <<"step">>
          /\ UNCHANGED <<procs, bm_sess>>
    /\ UNCHANGED <<sessions, navigated, bm_calls>>
    /\ UNCHANGED notBrowser

\* BrowserSession::launch after the spawn (browser.rs:294-322) and the
\* insert of get_or_create (browser.rs:848-851): the CDP connection is made,
\* the session is wrapped in an Arc, a clone goes into the map and the entry
\* it replaces, if any, is dropped.
LaunchConnect(t) ==
    /\ bm_pc[t] = "connect"
    /\ LET p == bm_sess[t]
           agent == bm_call[t].agent
           held == [procs EXCEPT ![p].owner = "session", ![p].refs = 2]
       IN  /\ procs' = IF agent \in DOMAIN sessions
                       THEN DropArc(held, sessions[agent])
                       ELSE held
           /\ sessions' = MapInsert(sessions, agent, p)
    /\ bm_pc' = [bm_pc EXCEPT ![t] = "lock"]
    /\ bm_event' = <<"step">>
    /\ UNCHANGED <<bm_call, bm_sess, bm_ret, navigated, bm_calls>>
    /\ UNCHANGED notBrowser

\* BrowserSession::launch failing after the spawn (browser.rs:295-311, the
\* ? operators): the Child is dropped, which does not kill the process; it
\* has exited by itself or it is still running.
LaunchFail(t) ==
    /\ bm_pc[t] = "connect"
    /\ \E exited \in BOOLEAN :
          procs' = [procs EXCEPT ![bm_sess[t]].owner = "nobody",
                                 ![bm_sess[t]].alive = ~exited]
    /\ bm_sess' = [bm_sess EXCEPT ![t] = 0]
    /\ bm_pc' = [bm_pc EXCEPT ![t] = "idle"]
    /\ bm_ret' = [bm_ret EXCEPT ![t] = Err("launch", None)]
    /\ bm_call' = [bm_call EXCEPT ![t] = NoCall]
    /\ bm_event' = <<"step">>
    /\ UNCHANGED <<sessions, navigated, bm_calls>>
    /\ UNCHANGED notBrowser

\* send_command: session.lock().await (browser.rs:809).
LockSession(t) ==
    /\ bm_pc[t] = "lock"
    /\ procs[bm_sess[t]].holder = 0
    /\ procs' = [procs EXCEPT ![bm_sess[t]].holder = t]
    /\ bm_pc' = [bm_pc EXCEPT ![t] = "execute"]
    /\ bm_event' = <<"step">>
    /\ UNCHANGED <<sessions, bm_call, bm_sess, bm_ret, navigated, bm_calls>>
    /\ UNCHANGED notBrowser

\* BrowserSession::execute (browser.rs:386-405); cmd_navigate sends
\* Page.navigate for the URL it is given (browser.rs:409-413).
Execute(t) ==
    /\ bm_pc[t] = "execute"
    /\ navigated' = IF bm_call[t].cmd.action = "Navigate"
                    THEN navigated \cup {bm_call[t].cmd.url}
                    ELSE navigated
    /\ bm_pc' = [bm_pc EXCEPT ![t] = "return"]
    /\ bm_event' = <<"step">>
    /\ UNCHANGED <<sessions, procs, bm_call, bm_sess, bm_ret, bm_calls>>
    /\ UNCHANGED notBrowser

\* send_command returning (browser.rs:818-819): the guard is dropped, then
\* the task's Arc.
ReturnResponse(t) ==
    /\ bm_pc[t] = "return"
    /\ procs' = DropArc([procs EXCEPT ![bm_sess[t]].holder = 0], bm_sess[t])
    /\ bm_sess' = [bm_sess EXCEPT ![t] = 0]
    /\ bm_pc' = [bm_pc EXCEPT ![t] = "idle"]
    /\ bm_ret' = [bm_ret EXCEPT ![t] = Ok(bm_call[t].cmd.action)]
    /\ bm_call' = [bm_call EXCEPT ![t] = NoCall]
    /\ bm_event' = <<"returned", bm_call[t].agent, bm_call[t].cmd.action>>
    /\ UNCHANGED <<sessions, navigated, bm_calls>>
    /\ UNCHANGED notBrowser

\* BrowserManager::close_session (browser.rs:822-827), also reached by
\* cleanup_agent and tool_browser_close.
CloseSession(t) ==
    /\ bm_pc[t] = "idle"
    /\ bm_calls < MaxBrowserCalls
    /\ bm_calls' = bm_calls + 1
    /\ \E agent \in BrowserAgents :
          /\ IF agent \in DOMAIN sessions
             THEN /\ sessions' = MapRemove(sessions, agent)
                  /\ procs' = DropArc(procs, sessions[agent])
             ELSE UNCHANGED <<sessions, procs>>
          /\ bm_event' = <<"close_session_returned", agent>>
    /\ bm_ret' = [bm_ret EXCEPT ![t] = Ok(None)]
    /\ UNCHANGED <<bm_pc, bm_call, bm_sess, navigated>>
    /\ UNCHANGED notBrowser

BrowserNext ==
    \E t \in Tasks :
        \/ StartSendCommand(t)
        \/ ToolBrowserNavigate(t)
        \/ GetSession(t)
        \/ CheckCapacity(t)
        \/ LaunchSpawn(t)
        \/ LaunchConnect(t)
        \/ LaunchFail(t)
        \/ LockSession(t)
        \/ Execute(t)
        \/ ReturnResponse(t)
        \/ CloseSession(t)

(***************************************************************************)
(* CdpConnection: send, the pending map and the reader task                *)
(* (browser.rs:85-186).                                                    *)
(***************************************************************************)
MaxCdpSends == 2

Callers == {1, 2}

CdpInit ==
    /\ next_id = 1
    /\ pending = {}
    /\ cdp_rx = [i \in 1..MaxCdpSends |-> [frame |-> 0, kind |-> "empty"]]
    /\ cdp_pc = [c \in Callers |-> "idle"]
    /\ cdp_id = [c \in Callers |-> 0]
    /\ cdp_ret = [c \in Callers |-> [id |-> 0, outcome |-> "none", frame |-> 0]]
    /\ reader_alive = TRUE
    /\ cdp_event = <<"none", 0>>
    /\ cdp_routed = << >>

\* let id = self.next_id.fetch_add(1, Ordering::Relaxed);
\* let (tx, rx) = oneshot::channel(); self.pending.insert(id, tx);
CdpSend(c) ==
    /\ cdp_pc[c] = "idle"
    /\ next_id <= MaxCdpSends
    /\ cdp_id' = [cdp_id EXCEPT ![c] = next_id]
    /\ next_id' = next_id + 1
    /\ pending' = pending \cup {next_id}
    /\ cdp_pc' = [cdp_pc EXCEPT ![c] = "write"]
    /\ cdp_event' = <<"inserted", next_id>>
    /\ UNCHANGED <<cdp_rx, cdp_ret, reader_alive, cdp_routed>>
    /\ UNCHANGED notCdp

\* self.write.lock().await.send(WsMessage::Text(..)).await
\*     .map_err(|e| format!("CDP send failed: {e}"))?;
\* A failed write returns at the `?`: nothing on that path touches pending.
CdpWrite(c) ==
    /\ cdp_pc[c] = "write"
    /\ \E written \in BOOLEAN :
        IF written
        THEN /\ cdp_pc' = [cdp_pc EXCEPT ![c] = "await"]
             /\ cdp_ret' = cdp_ret
        ELSE /\ cdp_pc' = [cdp_pc EXCEPT ![c] = "idle"]
             /\ cdp_ret' = [cdp_ret EXCEPT ![c] =
                    [id |-> cdp_id[c], outcome |-> "send_failed", frame |-> 0]]
    /\ cdp_event' = <<"write", cdp_id[c]>>
    /\ UNCHANGED <<next_id, pending, cdp_rx, cdp_id, reader_alive, cdp_routed>>
    /\ UNCHANGED notCdp

\* if let Some((_, sender)) = pending.remove(&id): the key whose sender the
\* frame goes to, 0 when the map has no entry under the frame's id.
PendingRemoveAny(pend, id) ==
    IF id = 0 \/ pend = {} THEN 0
    ELSE CHOOSE k \in pend : \A j \in pend : k <= j

PendingRemove(pend, id) ==
    IF id \in pend THEN id ELSE 0

\* One turn of `while let Some(msg) = read.next().await` on a text frame.
\* Chromium may put any frame on the socket: a response with any id and a
\* result or an error, an event (no id), or text that is not JSON; id 0
\* stands for "no id".
ReaderLoop ==
    /\ reader_alive
    /\ \E frame \in [id : 1..MaxCdpSends, kind : {"result", "error"}]
                      \cup {[id |-> 0, kind |-> "event"],
                            [id |-> 0, kind |-> "not_json"]} :
        LET k == PendingRemove(pending, frame.id)
        IN  IF k # 0
            THEN /\ pending' = pending \ {k}
                 /\ cdp_rx' = [cdp_rx EXCEPT ![k] =
                        [frame |-> frame.id, kind |-> frame.kind]]
                 /\ cdp_routed' = Append(cdp_routed, frame.id)
                 /\ cdp_event' = <<"routed", frame.id>>
            ELSE /\ cdp_event' = <<"dropped", frame.id>>
                 /\ UNCHANGED <<pending, cdp_rx, cdp_routed>>
    /\ UNCHANGED <<next_id, cdp_pc, cdp_id, cdp_ret, reader_alive>>
    /\ UNCHANGED notCdp

\* Ok(WsMessage::Close(_)) => break, Err(_) => break, or the stream ended.
ReaderStop ==
    /\ reader_alive
    /\ reader_alive' = FALSE
    /\ cdp_event' = <<"reader_stopped", 0>>
    /\ UNCHANGED <<next_id, pending, cdp_rx, cdp_pc, cdp_id, cdp_ret, cdp_routed>>
    /\ UNCHANGED notCdp

\* timeout(..rx): Ok(Ok(result)) => result, the value the reader sent.
CdpReceive(c) ==
    /\ cdp_pc[c] = "await"
    /\ cdp_rx[cdp_id[c]].kind # "empty"
    /\ cdp_ret' = [cdp_ret EXCEPT ![c] =
            [id |-> cdp_id[c],
             outcome |-> IF cdp_rx[cdp_id[c]].kind = "error"
                         THEN "cdp_error" ELSE "result",
             frame |-> cdp_rx[cdp_id[c]].frame]]
    /\ cdp_pc' = [cdp_pc EXCEPT ![c] = "idle"]
    /\ cdp_event' = <<"received", cdp_id[c]>>
    /\ UNCHANGED <<next_id, pending, cdp_rx, cdp_id, reader_alive, cdp_routed>>
    /\ UNCHANGED notCdp

\* tokio::time::timeout(CDP_COMMAND_TIMEOUT_SECS, rx): the timer elapses
\* while rx holds no value.
TimeoutNever(rx) == FALSE

TimeoutElapses(rx) == rx.kind = "empty"

\* Err(_) => { self.pending.remove(&id); Err("CDP command timed out") }
CdpTimeout(c) ==
    /\ cdp_pc[c] = "await"
    /\ TimeoutElapses(cdp_rx[cdp_id[c]])
    /\ pending' = pending \ {cdp_id[c]}
    /\ cdp_ret' = [cdp_ret EXCEPT ![c] =
            [id |-> cdp_id[c], outcome |-> "timed_out", frame |-> 0]]
    /\ cdp_pc' = [cdp_pc EXCEPT ![c] = "idle"]
    /\ cdp_event' = <<"timed_out", cdp_id[c]>>
    /\ UNCHANGED <<next_id, cdp_rx, cdp_id, reader_alive, cdp_routed>>
    /\ UNCHANGED notCdp

CdpNext ==
    \/ \E c \in Callers :
        \/ CdpSend(c)
        \/ CdpWrite(c)
        \/ CdpReceive(c)
        \/ CdpTimeout(c)
    \/ ReaderLoop
    \/ ReaderStop


(***************************************************************************)
(* External content markers (web_content.rs:36-57).  A text is the         *)
(* sequence of its lines; a line is <<kind, text>>: an opening or closing  *)
(* marker line with its boundary, the header line with its URL, or a line  *)
(* of other text.                                                          *)
(***************************************************************************)
\* Most lines in one content.
MaxLines == 3

\* content_boundary: "EXTCONTENT_" and the first 6 bytes of SHA256(url) in
\* hex; a function of the URL alone.
ContentBoundary(source_url) ==
    CASE source_url = "https://example.com" -> "EXTCONTENT_100680ad546c"
      [] source_url = "https://example.org" -> "EXTCONTENT_50d7a905e304"

\* wrap_external_content: "<<<{boundary}>>>\n[External content from
\* {source_url} ...]\n{content}\n<<</{boundary}>>>", the content as given.
WrapExternalContent(source_url, content) ==
    << <<"open", ContentBoundary(source_url)>>, <<"header", source_url>> >>
        \o content
        \o << <<"close", ContentBoundary(source_url)>> >>

\* No call yet.
WebIdle ==
    /\ wc_url = ""
    /\ wc_content = << >>
    /\ wc_out = << >>

\* wrap_external_content(wc_url, wc_content)
WrapContent ==
    /\ wc_out = << >>
    /\ wc_out' = WrapExternalContent(wc_url, wc_content)
    /\ UNCHANGED <<wc_url, wc_content>>
    /\ UNCHANGED <<chunkerVars, handVars, browserVars, driverVars,
                   overflowVars, cdpVars>>

(***************************************************************************)
(* AnthropicDriver: the retry loop of complete and stream, the SSE parse   *)
(* loop of stream, and the response each of them builds.  The vendor's     *)
(* response is a sequence of content blocks; stream receives it as SSE     *)
(* events, one parse step per event.                                       *)
(***************************************************************************)
\* let max_retries = 3 (anthropic.rs:199 and 306)
max_retries == 3

\* Most content blocks in one vendor response.
MaxBlocks == 2

\* The responses a vendor may send, as sequences of content blocks: text,
\* thinking, tool_use with its input in zero, one or two partial_json
\* fragments, and a block of a type the driver does not know.  The id of a
\* tool_use block is its position in the response.
VendorOutputs ==
    LET choices ==
            {[type |-> "text", deltas |-> <<"hi">>],
             [type |-> "thinking", deltas |-> <<"hm">>],
             [type |-> "tool_use", deltas |-> << >>],
             [type |-> "tool_use", deltas |-> <<"{", "}">>],
             [type |-> "tool_use", deltas |-> <<"{\"a\":1}">>],
             [type |-> "other", deltas |-> << >>]}
    IN  UNION {[1..n -> choices] : n \in 0..MaxBlocks}

\* String::push_str over fragments
ConcatStr(frags) ==
    LET RECURSIVE cat(_)
        cat(k) == IF k = 0 THEN "" ELSE cat(k - 1) \o frags[k]
    IN  cat(Len(frags))

\* serde_json::from_str(input_json).unwrap_or_default(): the value of a
\* valid JSON text, Value::Null of any other.
ParseJsonOrDefault(text) == IF text \in {"{}", "{\"a\":1}"} THEN text ELSE "null"

\* The stop_reason the vendor reports for its blocks.
VendorStopReason(vendor) ==
    IF \E i \in DOMAIN vendor : vendor[i].type = "tool_use"
    THEN "tool_use" ELSE "end_turn"

\* The SSE events of one content block: start, one delta per fragment, stop.
BlockEvents(vendor, i) ==
    LET b == vendor[i]
        dt == CASE b.type = "text" -> "text_delta"
                [] b.type = "tool_use" -> "input_json_delta"
                [] b.type = "thinking" -> "thinking_delta"
                [] OTHER -> "other_delta"
    IN  <<[event |-> "content_block_start", type |-> b.type, id |-> i,
           text |-> ""]>>
        \o [k \in 1..Len(b.deltas) |->
               [event |-> "content_block_delta", type |-> dt, id |-> 0,
                text |-> b.deltas[k]]]
        \o <<[event |-> "content_block_stop", type |-> "", id |-> 0, text |-> ""]>>

\* The SSE events of a whole response, in the vendor's order.
SseEvents(vendor) ==
    LET RECURSIVE upto(_)
        upto(i) == IF i = 0 THEN << >> ELSE upto(i - 1) \o BlockEvents(vendor, i)
    IN  <<[event |-> "message_start", type |-> "", id |-> 0, text |-> ""]>>
        \o upto(Len(vendor))
        \o <<[event |-> "message_delta", type |-> "", id |-> 0,
              text |-> VendorStopReason(vendor)],
             [event |-> "message_stop", type |-> "", id |-> 0, text |-> ""]>>

\* match on stop_reason (anthropic.rs:482-488 and 623-629)
StopReasonOf(sr) ==
    CASE sr = "end_turn" -> "EndTurn"
      [] sr = "tool_use" -> "ToolUse"
      [] sr = "max_tokens" -> "MaxTokens"
      [] sr = "stop_sequence" -> "StopSequence"
      [] OTHER -> "EndTurn"

\* convert_response (anthropic.rs:600-640), on the deserialized blocks:
\* a tool_use block carries its input as a JSON value.
ConvertResponse(vendor) ==
    LET block(i) ==
            IF vendor[i].type = "tool_use"
            THEN [type |-> "tool_use", id |-> i,
                  value |-> IF vendor[i].deltas = << >> THEN "{}"
                            ELSE ConcatStr(vendor[i].deltas)]
            ELSE [type |-> vendor[i].type, id |-> 0,
                  value |-> ConcatStr(vendor[i].deltas)]
        content == [i \in DOMAIN vendor |-> block(i)]
    IN  [content |-> content,
         tool_calls |-> SelectSeq(content, LAMBDA b : b.type = "tool_use"),
         stop_reason |-> StopReasonOf(VendorStopReason(vendor))]

\* stream: the response built from the accumulators (anthropic.rs:499-536).
BuildResponse(accs, sr) ==
    LET block(i) ==
            IF accs[i].type = "tool_use"
            THEN [type |-> "tool_use", id |-> accs[i].id,
                  value |-> ParseJsonOrDefault(accs[i].text)]
            ELSE [type |-> accs[i].type, id |-> 0, value |-> accs[i].text]
        content == [i \in DOMAIN accs |-> block(i)]
    IN  [content |-> content,
         tool_calls |-> SelectSeq(content, LAMBDA b : b.type = "tool_use"),
         stop_reason |-> sr]

\* retry_ms: the wait before the retry that follows attempt number a.
RetryMsFlat(a) == 2000

RetryMs(a) == (a + 1) * 2000

DriverInit ==
    /\ dr_mode = "none"
    /\ dr_pc = "idle"
    /\ attempt = 0
    /\ dr_statuses = << >>
    /\ dr_waits = << >>
    /\ dr_vendor = << >>
    /\ dr_events = << >>
    /\ blocks = << >>
    /\ stop_reason = "EndTurn"
    /\ dr_sink = << >>
    /\ dr_ret = None

\* The call ends with a result.
DriverReturnAgain(result) ==
    /\ dr_pc' = "send"
    /\ dr_ret' = result

DriverReturn(result) ==
    /\ dr_pc' = "done"
    /\ dr_ret' = result

\* A caller starts complete or stream (anthropic.rs:154, 259): the request
\* is built and the retry loop entered.
CallDriver ==
    /\ dr_pc \in {"idle", "done"}
    /\ \E mode \in {"complete", "stream"} : dr_mode' = mode
    /\ dr_pc' = "send"
    /\ attempt' = 0
    /\ dr_statuses' = << >>
    /\ dr_waits' = << >>
    /\ dr_vendor' = << >>
    /\ dr_events' = << >>
    /\ blocks' = << >>
    /\ stop_reason' = "EndTurn"
    /\ dr_sink' = << >>
    /\ dr_ret' = None
    /\ UNCHANGED notDriver

\* One iteration of the retry loop up to its first suspension or return
\* (complete: anthropic.rs:200-250, stream: anthropic.rs:307-356).
SendRequest ==
    /\ dr_pc = "send"
    \* the attempt ends in a status, or in a transport error (0)
    /\ \E outcome \in {0, 200, 429, 529, 500} :
       \E vendor \in IF outcome = 200 THEN VendorOutputs ELSE {<< >>} :
          /\ dr_statuses' = Append(dr_statuses, outcome)
          /\ CASE outcome = 0 ->
                    /\ DriverReturn(Err("Http", 0))
                    /\ UNCHANGED <<dr_vendor, dr_events>>
               [] outcome \in {429, 529} ->
                    /\ IF attempt < max_retries
                       THEN dr_pc' = "sleep" /\ dr_ret' = dr_ret
                       ELSE DriverReturn(IF outcome = 429
                                         THEN Err("RateLimited", 5000)
                                         ELSE Err("Overloaded", 5000))
                    /\ UNCHANGED <<dr_vendor, dr_events>>
               [] outcome = 200 /\ dr_mode = "complete" ->
                    /\ dr_vendor' = vendor
                    /\ dr_events' = dr_events
                    /\ IF \E i \in DOMAIN vendor : vendor[i].type = "other"
                       THEN DriverReturn(Err("Parse", 0))
                       ELSE DriverReturn(Ok(ConvertResponse(vendor)))
               [] outcome = 200 /\ dr_mode = "stream" ->
                    /\ dr_vendor' = vendor
                    /\ dr_events' = SseEvents(vendor)
                    /\ dr_pc' = "parse"
                    /\ dr_ret' = dr_ret
               [] OTHER ->
                    /\ DriverReturn(Err("Api", outcome))
                    /\ UNCHANGED <<dr_vendor, dr_events>>
    /\ UNCHANGED <<dr_mode, attempt, dr_waits, blocks, stop_reason, dr_sink>>
    /\ UNCHANGED notDriver

\* tokio::time::sleep(retry_ms), then continue: the next iteration, or the
\* end of the loop (anthropic.rs:219-222, 253-256).
Backoff ==
    /\ dr_pc = "sleep"
    /\ dr_waits' = Append(dr_waits, RetryMs(attempt))
    /\ attempt' = attempt + 1
    /\ IF attempt + 1 <= max_retries
       THEN dr_pc' = "send" /\ dr_ret' = dr_ret
       ELSE DriverReturn(Err("Api", 0))
    /\ UNCHANGED <<dr_mode, dr_statuses, dr_vendor, dr_events, blocks,
                   stop_reason, dr_sink>>
    /\ UNCHANGED notDriver

\* stream: one SSE event parsed (anthropic.rs:361-496).
ParseEvent ==
    /\ dr_pc = "parse"
    /\ dr_events # << >>
    /\ dr_events' = Tail(dr_events)
    /\ LET ev == Head(dr_events)
           last == IF blocks = << >> THEN [type |-> "none", id |-> 0, text |-> ""]
                   ELSE blocks[Len(blocks)]
           push(acc) == Append(blocks, acc)
           extend == [blocks EXCEPT ![Len(blocks)].text = @ \o ev.text]
       IN  CASE ev.event = "content_block_start" /\ ev.type \in {"text", "thinking"} ->
                    /\ blocks' = push([type |-> ev.type, id |-> 0, text |-> ""])
                    /\ UNCHANGED <<dr_sink, stop_reason>>
             [] ev.event = "content_block_start" /\ ev.type = "tool_use" ->
                    /\ dr_sink' = Append(dr_sink, [type |-> "ToolUseStart",
                                                   id |-> ev.id, text |-> ""])
                    /\ blocks' = push([type |-> "tool_use", id |-> ev.id, text |-> ""])
                    /\ UNCHANGED stop_reason
             [] ev.event = "content_block_delta" /\ ev.type = "text_delta" ->
                    /\ blocks' = IF last.type = "text" THEN extend ELSE blocks
                    /\ dr_sink' = Append(dr_sink, [type |-> "TextDelta", id |-> 0,
                                                   text |-> ev.text])
                    /\ UNCHANGED stop_reason
             [] ev.event = "content_block_delta" /\ ev.type = "input_json_delta" ->
                    /\ blocks' = IF last.type = "tool_use" THEN extend ELSE blocks
                    /\ dr_sink' = Append(dr_sink, [type |-> "ToolInputDelta", id |-> 0,
                                                   text |-> ev.text])
                    /\ UNCHANGED stop_reason
             [] ev.event = "content_block_delta" /\ ev.type = "thinking_delta" ->
                    /\ blocks' = IF last.type = "thinking" THEN extend ELSE blocks
                    /\ UNCHANGED <<dr_sink, stop_reason>>
             [] ev.event = "content_block_stop" ->
                    /\ dr_sink' = IF last.type = "tool_use"
                                  THEN Append(dr_sink,
                                              [type |-> "ToolUseEnd", id |-> last.id,
                                               text |-> ParseJsonOrDefault(last.text)])
                                  ELSE dr_sink
                    /\ UNCHANGED <<blocks, stop_reason>>
             [] ev.event = "message_delta" ->
                    /\ stop_reason' = StopReasonOf(ev.text)
                    /\ UNCHANGED <<blocks, dr_sink>>
             [] OTHER -> UNCHANGED <<blocks, dr_sink, stop_reason>>
    /\ UNCHANGED <<dr_mode, dr_pc, attempt, dr_statuses, dr_waits, dr_vendor, dr_ret>>
    /\ UNCHANGED notDriver

\* stream: the byte stream ends; the response is built, ContentComplete is
\* sent and the call returns (anthropic.rs:499-536).
StreamEnd ==
    /\ dr_pc = "parse"
    /\ dr_events = << >>
    /\ dr_sink' = Append(dr_sink, [type |-> "ContentComplete", id |-> 0,
                                   text |-> stop_reason])
    /\ DriverReturn(Ok(BuildResponse(blocks, stop_reason)))
    /\ UNCHANGED <<dr_mode, attempt, dr_statuses, dr_waits, dr_vendor, dr_events,
                   blocks, stop_reason>>
    /\ UNCHANGED notDriver

\* stream: the byte stream fails (anthropic.rs:358).
StreamError ==
    /\ dr_pc = "parse"
    /\ dr_events # << >>
    /\ DriverReturn(Err("Http", 0))
    /\ UNCHANGED <<dr_mode, attempt, dr_statuses, dr_waits, dr_vendor, dr_events,
                   blocks, stop_reason, dr_sink>>
    /\ UNCHANGED notDriver

DriverNext ==
    \/ CallDriver
    \/ SendRequest
    \/ Backoff
    \/ ParseEvent
    \/ StreamEnd
    \/ StreamError

(***************************************************************************)
(* Context overflow recovery and the context guard.  A string is known by  *)
(* its byte length, where its characters start and where its newlines      *)
(* are: bytes [0, off) and [wend, len) are one-byte characters, bytes       *)
(* [off, wend) are characters of w bytes each, nls are the offsets of       *)
(* '\n'.  A marker that is appended counts as one-byte characters: no       *)
(* slice of these functions reaches into a marker.                          *)
(***************************************************************************)
\* Longest history given to a call.
MaxMessages == 11

\* let keep = 10.min(messages.len()) (context_overflow.rs:55)
Stage1Keep == 10

\* let keep = 4.min(messages.len()) (context_overflow.rs:74)
Stage2Keep == 4

\* let tool_truncation_limit = 2000 (context_overflow.rs:98)
tool_truncation_limit == 2000

\* let compact_target = 2000 (context_budget.rs:162)
compact_target == 2000

\* The context windows of the calls, in tokens.  For each of them the f64
\* products W * 0.70, 0.90, 0.75 and 0.50 truncate to the integer quotients.
Windows == {60, 160, 1200, 3000}

\* A string of one-byte characters without newline.
Str(len) == [len |-> len, off |-> len, wend |-> len, w |-> 1, nls |-> {}]

\* The contents of tool results: short; long, one-byte characters; long,
\* one one-byte character followed by three-byte characters.
ResultContents ==
    {Str(100), Str(2500), [len |-> 4000, off |-> 1, wend |-> 4000, w |-> 3, nls |-> {}]}

\* str::is_char_boundary
ContentIsCharBoundary(c, i) ==
    /\ 0 <= i /\ i <= c.len
    /\ i <= c.off \/ i >= c.wend \/ (i - c.off) % c.w = 0

\* content[..i].char_indices().next_back(): the start of the character
\* that holds byte i, for an i that is no character boundary.
CharStart(c, i) == c.off + ((i - c.off) \div c.w) * c.w

\* &content[..b], b a character boundary
Prefix(c, b) ==
    [len |-> b, off |-> Min(c.off, b), wend |-> Min(c.wend, b), w |-> c.w,
     nls |-> {n \in c.nls : n < b}]

\* format!("{}\n\n[...]", prefix, ..): a marker of mlen bytes that starts
\* with two newlines is appended.
WithMarker(c, mlen) ==
    [len |-> c.len + mlen, off |-> c.off, wend |-> c.wend, w |-> c.w,
     nls |-> c.nls \cup {c.len, c.len + 1}]

\* The number of characters of {} for a usize.
Digits(n) ==
    LET RECURSIVE dig(_)
        dig(k) == IF k < 10 THEN 1 ELSE 1 + dig(k \div 10)
    IN  dig(n)

\* usize::saturating_sub
SaturatingSub(a, b) == IF a >= b THEN a - b ELSE 0

\* Message::user, Message::assistant (message.rs:168-182)
TextMessage(role, len) ==
    [role |-> role, kind |-> "Text",
     blocks |-> <<[type |-> "Text", id |-> 0, content |-> Str(len)]>>]

\* A message of content blocks (message.rs:33), here of one block.
BlockMessage(role, type, id, content) ==
    [role |-> role, kind |-> "Blocks",
     blocks |-> <<[type |-> type, id |-> id, content |-> content]>>]

\* The messages an agent loop may append to a history: a user text first,
\* an assistant text or tool call after a user text or a tool result, a
\* user text after an assistant text, the tool's result after a tool call.
NextMessages(h) ==
    LET n == Len(h)
        last == h[n].blocks[1]
        reply == {TextMessage("assistant", 40),
                  BlockMessage("assistant", "ToolUse", n + 1, Str(0))}
    IN  IF n = 0 THEN {TextMessage("user", 40)}
        ELSE CASE last.type = "ToolUse" ->
                     {BlockMessage("user", "ToolResult", last.id, c) : c \in ResultContents}
               [] last.type = "ToolResult" -> reply
               [] h[n].role = "user" -> reply
               [] OTHER -> {TextMessage("user", 40)}

\* The histories of at most MaxMessages messages.
Histories ==
    LET RECURSIVE oflen(_)
        oflen(n) == IF n = 0 THEN {<< >>}
                    ELSE UNION {{Append(h, m) : m \in NextMessages(h)} : h \in oflen(n - 1)}
    IN  UNION {oflen(n) : n \in 0..MaxMessages}

\* The system prompt of the calls, 40 bytes.
system_prompt == Str(40)

\* MessageContent::text_length (message.rs:126-141)
TextLength(m) ==
    LET RECURSIVE sum(_)
        sum(k) == IF k = 0 THEN 0
                  ELSE sum(k - 1) + (IF m.blocks[k].type \in {"Text", "ToolResult", "Thinking"}
                                     THEN m.blocks[k].content.len ELSE 0)
    IN  sum(Len(m.blocks))

\* estimate_tokens -> crate::compactor::estimate_token_count: the chars/4
\* heuristic over the messages and the system prompt, no tools defined.
EstimateTokens(msgs, sys) ==
    LET RECURSIVE sum(_)
        sum(k) == IF k = 0 THEN 0 ELSE sum(k - 1) + TextLength(msgs[k])
    IN  (sum(Len(msgs)) + sys.len) \div 4

\* (context_window as f64 * 0.pct) as usize
ThresholdLoose(W, pct) == (W * (pct + 20)) \div 100

Threshold(W, pct) == (W * pct) \div 100

\* messages.drain(..remove) keeps what follows the first `remove` messages.
DrainBack(msgs, remove) == SubSeq(msgs, 1, Len(msgs) - remove)

Drain(msgs, remove) == SubSeq(msgs, remove + 1, Len(msgs))

\* The ToolResult blocks of the Blocks messages, oldest first, each as
\* <<message index, block index>>.
ToolResultLocs(msgs) ==
    LET of(mi) ==
            IF msgs[mi].kind # "Blocks" THEN << >>
            ELSE LET bs == msgs[mi].blocks
                     RECURSIVE upto(_)
                     upto(k) == IF k = 0 THEN << >>
                                ELSE upto(k - 1) \o (IF bs[k].type = "ToolResult"
                                                     THEN <<(<<mi, k>>)>> ELSE << >>)
                 IN  upto(Len(bs))
        RECURSIVE all(_)
        all(mi) == IF mi = 0 THEN << >> ELSE all(mi - 1) \o of(mi)
    IN  all(Len(msgs))

ContentAt(msgs, loc) == msgs[loc[1]].blocks[loc[2]].content

SetContent(msgs, loc, c) == [msgs EXCEPT ![loc[1]].blocks[loc[2]].content = c]

\* Stage 3 on one ToolResult content (context_overflow.rs:104-117): the
\* content cut at keep, or at the start of the character that holds byte
\* keep, plus the marker.
Stage3Truncate(c) ==
    LET keep == SaturatingSub(tool_truncation_limit, 80)
        safe_keep == IF ContentIsCharBoundary(c, keep) THEN keep ELSE CharStart(c, keep)
    IN  WithMarker(Prefix(c, safe_keep), 48 + Digits(c.len) + Digits(safe_keep))

\* Stage 3 (context_overflow.rs:97-123): every ToolResult longer than the
\* limit is truncated, in order.
Stage3(msgs) ==
    LET locs == ToolResultLocs(msgs)
        RECURSIVE walk(_)
        walk(k) ==
            IF k = 0 THEN [messages |-> msgs, truncated |-> 0]
            ELSE LET st == walk(k - 1)
                     c == ContentAt(st.messages, locs[k])
                 IN  IF c.len <= tool_truncation_limit THEN st
                     ELSE [messages |-> SetContent(st.messages, locs[k], Stage3Truncate(c)),
                           truncated |-> st.truncated + 1]
    IN  walk(Len(locs))

\* The note of stage 2 (context_overflow.rs:82-86)
Summary(remove) == TextMessage("user", 143 + Digits(remove))

\* recover_from_overflow (context_overflow.rs:38-139): the stage returned,
\* its count, the history left, and the stages that ran, in order.
RecoverFromOverflowResult(msgs, sys, W) ==
    LET estimated == EstimateTokens(msgs, sys)
        threshold_70 == Threshold(W, 70)
        threshold_90 == Threshold(W, 90)
        \* stage 1
        run1 == estimated <= threshold_90
        remove1 == Len(msgs) - Min(Stage1Keep, Len(msgs))
        m1 == IF run1 /\ remove1 > 0 THEN Drain(msgs, remove1) ELSE msgs
        done1 == run1 /\ remove1 > 0 /\ EstimateTokens(m1, sys) <= threshold_70
        \* stage 2
        remove2 == Len(m1) - Min(Stage2Keep, Len(m1))
        m2 == IF remove2 > 0 THEN <<Summary(remove2)>> \o Drain(m1, remove2) ELSE m1
        done2 == remove2 > 0 /\ EstimateTokens(m2, sys) <= threshold_90
        \* stage 3
        s3 == Stage3(m2)
        done3 == s3.truncated > 0 /\ EstimateTokens(s3.messages, sys) <= threshold_90
        first == IF run1 THEN <<1>> ELSE << >>
    IN  CASE estimated <= threshold_70 ->
                [stage |-> "None", n |-> 0, messages |-> msgs, tried |-> << >>]
          [] done1 ->
                [stage |-> "AutoCompaction", n |-> remove1, messages |-> m1,
                 tried |-> first]
          [] done2 ->
                [stage |-> "OverflowCompaction", n |-> remove2, messages |-> m2,
                 tried |-> first \o <<2>>]
          [] done3 ->
                [stage |-> "ToolResultTruncation", n |-> s3.truncated,
                 messages |-> s3.messages, tried |-> first \o <<2, 3>>]
          [] OTHER ->
                [stage |-> "FinalError", n |-> 0, messages |-> s3.messages,
                 tried |-> first \o <<2, 3, 4>>]

\* truncate_to (context_budget.rs:187-203): the content cut at the last
\* newline of the 100 bytes before keep, or at keep, plus the marker; the
\* slice &content[keep - 100..keep] panics when an end is inside a character.
TruncateTo(c, max_chars) ==
    LET keep == SaturatingSub(max_chars, 80)
        lo == SaturatingSub(keep, 100)
        found == {n \in c.nls : lo <= n /\ n < keep}
        break_point == IF found = {} THEN keep
                       ELSE CHOOSE n \in found : \A o \in found : o <= n
    IN  IF c.len <= max_chars THEN [panic |-> FALSE, content |-> c]
        ELSE IF ~ContentIsCharBoundary(c, lo) \/ ~ContentIsCharBoundary(c, keep)
        THEN [panic |-> TRUE, content |-> c]
        ELSE [panic |-> FALSE,
              content |-> WithMarker(Prefix(c, break_point),
                                     43 + Digits(c.len) + Digits(break_point))]

\* ContextBudget::single_result_max and ::total_tool_headroom_chars
\* (context_budget.rs:40-49), tool_chars_per_token = 2.0
BudgetCharsHalf(W, pct) == Threshold(W, pct)

BudgetChars(W, pct) == Threshold(W, pct) * 2

\* apply_context_guard (context_budget.rs:99-184): the number of results
\* compacted and the history left.
ApplyContextGuardResult(msgs, W) ==
    LET headroom == BudgetChars(W, 75)
        single_max == BudgetChars(W, 50)
        locations == ToolResultLocs(msgs)
        char_len(k) == ContentAt(msgs, locations[k]).len
        RECURSIVE total(_)
        total(k) == IF k = 0 THEN 0 ELSE total(k - 1) + char_len(k)
        start == [messages |-> msgs, total_chars |-> total(Len(locations)),
                  compacted |-> 0, panic |-> FALSE, break |-> FALSE]
        compact(st, k, max_chars) ==
            LET c == ContentAt(st.messages, locations[k])
                t == TruncateTo(c, max_chars)
            IN  IF t.panic THEN [st EXCEPT !.panic = TRUE]
                ELSE [st EXCEPT !.messages = SetContent(st.messages, locations[k], t.content),
                                !.total_chars = st.total_chars - c.len + t.content.len,
                                !.compacted = st.compacted + 1]
        RECURSIVE pass1(_)
        pass1(k) ==
            IF k = 0 THEN start
            ELSE LET st == pass1(k - 1)
                 IN  IF st.panic \/ char_len(k) <= single_max THEN st
                     ELSE compact(st, k, single_max)
        RECURSIVE pass2(_)
        pass2(k) ==
            IF k = 0 THEN pass1(Len(locations))
            ELSE LET st == pass2(k - 1)
                 IN  IF st.panic \/ st.break THEN st
                     ELSE IF st.total_chars <= headroom THEN [st EXCEPT !.break = TRUE]
                     ELSE IF char_len(k) <= compact_target THEN st
                     ELSE IF ContentAt(st.messages, locations[k]).len > compact_target
                     THEN compact(st, k, compact_target)
                     ELSE st
        end == pass2(Len(locations))
    IN  IF start.total_chars <= headroom
        THEN [stage |-> "guard", n |-> 0, messages |-> msgs, tried |-> << >>]
        ELSE [stage |-> IF end.panic THEN "panic" ELSE "guard", n |-> end.compacted,
              messages |-> end.messages, tried |-> << >>]

\* A history, before any call.
OverflowInit ==
    /\ messages \in Histories
    /\ ov_input = messages
    /\ ov_op = "none"
    /\ context_window \in Windows
    /\ ov_ret = [stage |-> "none", n |-> 0, tried |-> << >>]

\* No history.
OverflowIdle ==
    /\ messages = << >>
    /\ ov_input = << >>
    /\ ov_op = "none"
    /\ context_window = 0
    /\ ov_ret = [stage |-> "none", n |-> 0, tried |-> << >>]

\* recover_from_overflow(&mut messages, system_prompt, &[], context_window)
RecoverFromOverflow ==
    /\ ov_op = "none"
    /\ LET r == RecoverFromOverflowResult(messages, system_prompt, context_window)
       IN  /\ messages' = r.messages
           /\ ov_ret' = [stage |-> r.stage, n |-> r.n, tried |-> r.tried]
    /\ ov_op' = "recover_from_overflow"
    /\ UNCHANGED <<ov_input, context_window>>
    /\ UNCHANGED notOverflow

\* apply_context_guard(&mut messages, &ContextBudget::new(context_window), &[])
ApplyContextGuard ==
    /\ ov_op = "none"
    /\ LET r == ApplyContextGuardResult(messages, context_window)
       IN  /\ messages' = r.messages
           /\ ov_ret' = [stage |-> r.stage, n |-> r.n, tried |-> r.tried]
    /\ ov_op' = "apply_context_guard"
    /\ UNCHANGED <<ov_input, context_window>>
    /\ UNCHANGED notOverflow

OverflowNext == RecoverFromOverflow \/ ApplyContextGuard

(***************************************************************************)
(* Layer 1 of the context budget: one tool result is capped by             *)
(* truncate_tool_result_dynamic before it is appended to the history.      *)
(***************************************************************************)
\* ContextBudget::per_result_cap (context_budget.rs:34-37)
PerResultCap(W) == BudgetChars(W, 30)

\* truncate_tool_result_dynamic (context_budget.rs:61-93): the content cut
\* at the last newline of the 200 bytes before the cap, or 100 bytes before
\* the cap, plus the marker; &content[search_start..safe_cap] panics when
\* search_start is inside a character.
TruncateToolResultDynamic(c, W) ==
    LET cap == PerResultCap(W)
        safe_cap == IF ContentIsCharBoundary(c, cap) THEN cap ELSE CharStart(c, cap)
        search_start == SaturatingSub(safe_cap, 200)
        found == {n \in c.nls : search_start <= n /\ n < safe_cap}
        bp0 == IF found = {} THEN SaturatingSub(safe_cap, 100)
               ELSE CHOOSE n \in found : \A o \in found : o <= n
        break_point == IF ContentIsCharBoundary(c, bp0) THEN bp0 ELSE CharStart(c, bp0)
    IN  IF c.len <= cap THEN [stage |-> "kept", n |-> c.len, content |-> c]
        ELSE IF ~ContentIsCharBoundary(c, search_start)
        THEN [stage |-> "panic", n |-> 0, content |-> c]
        ELSE [stage |-> "truncated", n |-> break_point,
              content |-> WithMarker(Prefix(c, break_point),
                                     82 + Digits(c.len) + Digits(break_point)
                                        + Digits(W \div 1000))]

\* The context windows of the per-result calls, in tokens; W * 0.30
\* truncates to the integer quotient for each.
BudgetWindows == {100, 160, 400, 1200, 3000}

\* The tool results given to truncate_tool_result_dynamic: one-byte
\* characters with newlines at some offsets, and three-byte characters that
\* start at offset 0, 1 or 2.
BudgetContents ==
    LET lens == {50, 250, 800}
        newlines == {{}, {45}, {239}, {150, 710}}
        multi(l, o) == [len |-> l, off |-> o, wend |-> o + 3 * ((l - o) \div 3),
                        w |-> 3, nls |-> {}]
    IN  {[Str(l) EXCEPT !.nls = {n \in s : n < l}] : l \in lens, s \in newlines}
            \cup {multi(l, o) : l \in lens, o \in 0..2}

\* One tool result, as the only block of a user message, before the call.
InitBudget ==
    /\ ChunkerIdle /\ HandsInit /\ BrowserInit /\ DriverInit /\ CdpInit
    /\ WebIdle
    /\ \E c \in BudgetContents : messages = <<BlockMessage("user", "ToolResult", 1, c)>>
    /\ ov_input = messages
    /\ ov_op = "none"
    /\ context_window \in BudgetWindows
    /\ ov_ret = [stage |-> "none", n |-> 0, tried |-> << >>]

\* let content = truncate_tool_result_dynamic(&content, &ContextBudget::new(W))
TruncateResult ==
    /\ ov_op = "none"
    /\ LET r == TruncateToolResultDynamic(messages[1].blocks[1].content, context_window)
       IN  /\ messages' = SetContent(messages, <<1, 1>>, r.content)
           /\ ov_ret' = [stage |-> r.stage, n |-> r.n, tried |-> << >>]
    /\ ov_op' = "truncate_tool_result_dynamic"
    /\ UNCHANGED <<ov_input, context_window>>
    /\ UNCHANGED notOverflow

\*## SPECIFICATIONS
(***************************************************************************)
(* The specifications: one subsystem runs, the others stay idle.           *)
(***************************************************************************)
\* Each specification starts every subsystem as constructed and runs one.
InitChunker ==
    ChunkerInit /\ HandsInit /\ BrowserInit /\ DriverInit /\ OverflowIdle
    /\ CdpInit /\ WebIdle

SpecChunker == InitChunker /\ [][ChunkerNext]_vars

InitHands ==
    ChunkerIdle /\ HandsInit /\ BrowserInit /\ DriverInit /\ OverflowIdle
    /\ CdpInit /\ WebIdle

SpecHands == InitHands /\ [][HandsNext]_vars

InitBrowser ==
    ChunkerIdle /\ HandsInit /\ BrowserInit /\ DriverInit /\ OverflowIdle
    /\ CdpInit /\ WebIdle

SpecBrowser == InitBrowser /\ [][BrowserNext]_vars

InitDriver ==
    ChunkerIdle /\ HandsInit /\ BrowserInit /\ DriverInit /\ OverflowIdle
    /\ CdpInit /\ WebIdle

SpecDriver == InitDriver /\ [][DriverNext]_vars

InitOverflow ==
    ChunkerIdle /\ HandsInit /\ BrowserInit /\ DriverInit /\ OverflowInit
    /\ CdpInit /\ WebIdle

SpecOverflow == InitOverflow /\ [][OverflowNext]_vars

SpecBudget == InitBudget /\ [][TruncateResult]_vars

SpecRequirements == InitHands /\ [][CheckRequirements]_vars

SpecHandsRace ==
    InitHands /\ [][(\E th \in {1, 2} : ActivateScan(th) \/ ActivateInsert(th))
                       \/ Deactivate]_vars

\* A page of any content fetched from either URL: up to MaxLines lines, each
\* of plain text, empty, or spelling a marker line of either boundary.
InitWeb ==
    /\ ChunkerIdle /\ HandsInit /\ BrowserInit /\ DriverInit /\ OverflowIdle
    /\ CdpInit
    /\ wc_url \in {"https://example.com", "https://example.org"}
    /\ wc_content \in
          UNION {[1..n -> {<<"text", "Hello world">>, <<"text", "">>}
                          \cup {<<k, ContentBoundary(u)>> :
                                   k \in {"open", "close"},
                                   u \in {"https://example.com",
                                          "https://example.org"}}] :
                 n \in 1..MaxLines}
    /\ wc_out = << >>

SpecWeb == InitWeb /\ [][WrapContent]_vars

InitCdp ==
    ChunkerIdle /\ HandsInit /\ BrowserInit /\ DriverInit /\ OverflowIdle
    /\ CdpInit /\ WebIdle

SpecCdp == InitCdp /\ [][CdpNext]_vars

\* The write completes or fails, and tokio's timer fires: a caller that can
\* take its next step eventually takes it.  The socket's peer, and so the
\* reader, is under no obligation.
SpecCdpFair ==
    SpecCdp /\ \A c \in Callers :
        WF_vars(CdpWrite(c)) /\ WF_vars(CdpReceive(c) \/ CdpTimeout(c))

(***************************************************************************)
(* Claims about the hand registry.                                         *)
(***************************************************************************)
\* C3: in every state reached by a serialized sequence of registry calls,
\* at most one instance per hand_id has status Active.
C3_AtMostOneActivePerHand ==
    \A h \in definitions :
        Cardinality({i \in DOMAIN instances :
                        /\ instances[i].hand_id = h
                        /\ instances[i].status = Status("Active", "")}) <= 1

(***************************************************************************)
(* Claims about the browser manager.                                       *)
(***************************************************************************)
\* C4: under every interleaving of concurrent send_command and
\* close_session calls the manager never holds more than max_sessions
\* sessions.
C4_SessionsWithinMax == Cardinality(DOMAIN sessions) <= max_sessions

\* C5: when close_session(a) has just returned, no Chromium process that
\* was spawned for agent a is alive.
C5_NoProcessAfterClose ==
    \A a \in BrowserAgents :
        bm_event = <<"close_session_returned", a>>
            => \A p \in DOMAIN procs : procs[p].agent = a => ~procs[p].alive

\* C6: Page.navigate is never sent for a URL that check_ssrf rejects.
C6_NavigateOnlyAfterSsrfCheck == \A u \in navigated : CheckSsrf(u)

(***************************************************************************)
(* Claims about the Anthropic driver.                                      *)
(***************************************************************************)
\* C7: in complete and in stream a 429 or 529 is retried up to max_retries
\* times (at most max_retries + 1 attempts), the wait before retry number i
\* being i x 2000 ms; when the last allowed attempt is again 429 or 529 the
\* call ends with RateLimited (429) or Overloaded (529); nothing else ends a
\* call on a 429 or 529, and no attempt follows the last one.
C7_RetryPolicy ==
    LET n == Len(dr_statuses)
    IN  /\ n <= max_retries + 1
        /\ Len(dr_waits) <= max_retries
        /\ n - Len(dr_waits) \in {0, 1}
        /\ \A i \in 1..Len(dr_waits) :
              dr_waits[i] = i * 2000 /\ dr_statuses[i] \in {429, 529}
        /\ \A i \in 1..(n - 1) : dr_statuses[i] \in {429, 529}
        /\ (dr_pc = "done" /\ n > 0 /\ dr_statuses[n] \in {429, 529})
              => /\ n = max_retries + 1
                 /\ ~dr_ret.ok
                 /\ dr_ret.val = IF dr_statuses[n] = 429
                                 THEN <<"RateLimited", 5000>>
                                 ELSE <<"Overloaded", 5000>>

\* A stream call exhausts its retries: four attempts, waits of 2, 4 and 6 s.
C7_Witness ==
    /\ dr_pc = "done"
    /\ dr_mode = "stream"
    /\ dr_statuses = <<429, 529, 429, 529>>
    /\ dr_waits = <<2000, 4000, 6000>>
    /\ ~dr_ret.ok
    /\ dr_ret.val = <<"Overloaded", 5000>>

\* The tool events the vendor's blocks call for: per tool_use block one
\* ToolUseStart, its ToolInputDeltas, one ToolUseEnd with the parsed input.
ExpectedToolEvents(vendor) ==
    LET of(i) ==
            IF vendor[i].type # "tool_use" THEN << >>
            ELSE <<[type |-> "ToolUseStart", id |-> i, text |-> ""]>>
                 \o [k \in 1..Len(vendor[i].deltas) |->
                        [type |-> "ToolInputDelta", id |-> 0,
                         text |-> vendor[i].deltas[k]]]
                 \o <<[type |-> "ToolUseEnd", id |-> i,
                       text |-> ParseJsonOrDefault(ConcatStr(vendor[i].deltas))]>>
        RECURSIVE upto(_)
        upto(i) == IF i = 0 THEN << >> ELSE upto(i - 1) \o of(i)
    IN  upto(Len(vendor))

\* C8: when a stream call has succeeded the sink holds, for every tool_use
\* block of the vendor and in the vendor's order, exactly one ToolUseStart,
\* then the block's ToolInputDeltas, then exactly one ToolUseEnd with the
\* parsed input; and ContentComplete exactly once, as the last event.
C8_ToolEventsInVendorOrder ==
    (dr_pc = "done" /\ dr_mode = "stream" /\ dr_ret.ok)
        => /\ SelectSeq(dr_sink,
                        LAMBDA e : e.type \in {"ToolUseStart", "ToolInputDelta",
                                               "ToolUseEnd"})
                 = ExpectedToolEvents(dr_vendor)
           /\ dr_sink # << >>
           /\ \A k \in DOMAIN dr_sink :
                 dr_sink[k].type = "ContentComplete" <=> k = Len(dr_sink)

(***************************************************************************)
(* Claims about overflow recovery and the context guard.                   *)
(***************************************************************************)
\* C9: when recover_from_overflow returns AutoCompaction the estimate of
\* the history it leaves is at most 70% of the context window, when it
\* returns OverflowCompaction or ToolResultTruncation at most 90%; and the
\* stages that ran are among 1..4 in increasing order, none twice.
C9_StageTargetsAndOrder ==
    ov_op = "recover_from_overflow"
        => LET est == EstimateTokens(messages, system_prompt)
               tried == ov_ret.tried
           IN  /\ ov_ret.stage = "AutoCompaction"
                     => est * 100 <= 70 * context_window
               /\ ov_ret.stage \in {"OverflowCompaction", "ToolResultTruncation"}
                     => est * 100 <= 90 * context_window
               /\ \A i \in DOMAIN tried : tried[i] \in 1..4
               /\ \A i \in 1..(Len(tried) - 1) : tried[i] < tried[i + 1]

\* Stage 3 brings an estimate above 90% of the window back under it, after
\* stage 2 has dropped messages and not sufficed.
C9_Witness ==
    /\ ov_op = "recover_from_overflow"
    /\ ov_ret.stage = "ToolResultTruncation"
    /\ ov_ret.tried = <<2, 3>>
    /\ Len(messages) < Len(ov_input)
    /\ EstimateTokens(ov_input, system_prompt) * 100 > 90 * context_window

\* Every ToolUse of an assistant message is followed by a ToolResult with
\* the same tool_use_id before the next assistant message.
Paired(h) ==
    \A i \in DOMAIN h :
        \A b \in DOMAIN h[i].blocks :
            (h[i].role = "assistant" /\ h[i].blocks[b].type = "ToolUse")
                => \E j \in (i + 1)..Len(h) :
                      /\ \A k \in (i + 1)..j : h[k].role # "assistant"
                      /\ \E r \in DOMAIN h[j].blocks :
                            /\ h[j].blocks[r].type = "ToolResult"
                            /\ h[j].blocks[r].id = h[i].blocks[b].id

\* C10: if the history given to recover_from_overflow or apply_context_guard
\* is paired, the history the call leaves when it returns is paired too.
C10_PairingPreserved ==
    (ov_op # "none" /\ ov_ret.stage # "panic" /\ Paired(ov_input))
        => Paired(messages)

\* Stage 2 drops messages of a paired history and keeps a tool call.
C10_Witness ==
    /\ ov_op = "recover_from_overflow"
    /\ ov_ret.stage = "OverflowCompaction"
    /\ Paired(ov_input)
    /\ Len(ov_input) > Stage2Keep
    /\ \E i \in DOMAIN messages : messages[i].blocks[1].type = "ToolUse"

(***************************************************************************)
(* Claims about the context budget.                                        *)
(***************************************************************************)
\* C11: the string truncate_tool_result_dynamic returns, the kept prefix
\* with the TRUNCATED marker appended, is at most per_result_cap(W) long.
C11_ResultWithinCap ==
    (ov_op = "truncate_tool_result_dynamic" /\ ov_ret.stage # "panic")
        => messages[1].blocks[1].content.len <= PerResultCap(context_window)

\* The contents of the ToolResult blocks of a history, oldest first.
ToolResultLens(msgs) ==
    LET locs == ToolResultLocs(msgs)
    IN  [k \in DOMAIN locs |-> ContentAt(msgs, locs[k]).len]

C40_ClosingMarkerOnlyLast ==
    wc_out # << >> =>
        {i \in 1..Len(wc_out) : wc_out[i] = <<"close", ContentBoundary(wc_url)>>}
            = {Len(wc_out)}

C37_NoteThenLastFour ==
    (ov_op = "recover_from_overflow" /\ ov_ret.stage = "OverflowCompaction") =>
        LET n0 == Len(ov_input)
            at_stage2 == IF ov_ret.tried[1] = 1 /\ n0 > 10 THEN 10 ELSE n0
        IN  /\ Len(messages) = 5
            /\ messages[1].role = "user"
            /\ messages[1].kind = "Text"
            /\ messages[1] \notin {ov_input[k] : k \in 1..n0}
            /\ SubSeq(messages, 2, 5) = SubSeq(ov_input, n0 - 3, n0)
            /\ ov_ret.n > 0
            /\ ov_ret.n = at_stage2 - 4

\* C37 witness: OverflowCompaction was returned for a history of more than
\* six messages whose last four include a tool result.
C37_Witness ==
    /\ ov_op = "recover_from_overflow"
    /\ ov_ret.stage = "OverflowCompaction"
    /\ Len(ov_input) > 6
    /\ ToolResultLocs(SubSeq(messages, 2, 5)) # << >>

\* C38: the count recover_from_overflow reports for message removal is
\* the number of messages of the original history that are no longer in
\* the history after the call.
C38_RemovedCountsAllDropped ==
    (ov_op = "recover_from_overflow"
        /\ ov_ret.stage \in {"AutoCompaction", "OverflowCompaction"}) =>
        ov_ret.n = Len(ov_input)
                     - (Len(messages)
                          - (IF ov_ret.stage = "OverflowCompaction" THEN 1 ELSE 0))

\* C35: the second pass of apply_context_guard takes the tool results
\* oldest first and stops once the running total is within the headroom:
\* it changes a result only while the total is above the headroom, only a
\* result longer than 2,000 characters, bringing it to at most 2,000, and
\* only when every earlier result longer than 2,000 has been compacted;
\* while the total is above the headroom it leaves no such result alone.
C35_SecondPassOldestFirst ==
    (ov_op = "apply_context_guard" /\ ov_ret.stage # "panic") =>
        LET locs == ToolResultLocs(ov_input)
            single_max == ((context_window * 50) \div 100) * 2
            headroom == ((context_window * 75) \div 100) * 2
            orig(k) == ContentAt(ov_input, locs[k])
            fin(k) == ContentAt(messages, locs[k])
            RECURSIVE total(_)
            total(j) == IF j = 0 THEN 0 ELSE total(j - 1) + orig(j).len
            started == total(Len(locs)) > headroom
            p1(k) == IF started /\ orig(k).len > single_max
                     THEN TruncateTo(orig(k), single_max).content ELSE orig(k)
            RECURSIVE running(_, _)
            running(k, j) ==
                IF j = 0 THEN 0
                ELSE running(k, j - 1) + (IF j < k THEN fin(j).len ELSE p1(j).len)
            over(k) == running(k, Len(locs)) > headroom
        IN  \A k \in DOMAIN locs :
               /\ fin(k) # p1(k) =>
                     /\ over(k)
                     /\ orig(k).len > 2000
                     /\ fin(k).len <= 2000
                     /\ \A j \in 1..(k - 1) : orig(j).len > 2000 => fin(j) # orig(j)
               /\ (started /\ over(k) /\ p1(k).len > 2000) => fin(k) # p1(k)

\* C35 witness: the second pass compacted the oldest result and stopped,
\* leaving a later result of more than 2,000 characters as it was.
C35_Witness ==
    /\ ov_op = "apply_context_guard"
    /\ ov_ret.stage = "guard"
    /\ ov_ret.n = 1
    /\ LET locs == ToolResultLocs(ov_input)
       IN  /\ Len(locs) >= 2
           /\ ContentAt(ov_input, locs[1]).len > 2000
           /\ ContentAt(messages, locs[1]).len <= 2000
           /\ \E k \in 2..Len(locs) :
                 /\ ContentAt(ov_input, locs[k]).len > 2000
                 /\ ContentAt(messages, locs[k]) = ContentAt(ov_input, locs[k])

\* C12: after apply_context_guard returns no ToolResult content is longer
\* than single_result_max.
C12_NoResultAboveSingleMax ==
    (ov_op = "apply_context_guard" /\ ov_ret.stage # "panic")
        => \A k \in DOMAIN ToolResultLens(messages) :
              ToolResultLens(messages)[k] <= BudgetChars(context_window, 50)

\* C13: after apply_context_guard returns the content lengths of all
\* ToolResult blocks sum to at most total_tool_headroom plus one compaction
\* granule of 2,000 characters.
C13_SumWithinHeadroom ==
    (ov_op = "apply_context_guard" /\ ov_ret.stage # "panic")
        => LET lens == ToolResultLens(messages)
               RECURSIVE sum(_)
               sum(k) == IF k = 0 THEN 0 ELSE sum(k - 1) + lens[k]
           IN  sum(Len(lens)) <= BudgetChars(context_window, 75) + compact_target

\* C14: no truncation of tool-result content slices inside a character:
\* neither stage 3 of recover_from_overflow nor the guard's truncate_to
\* nor truncate_tool_result_dynamic takes a slice whose start or end is
\* not a character boundary (such a slice panics).
C14_SlicesAtCharBoundaries == ov_ret.stage # "panic"

(***************************************************************************)
(* Claims about the two entry points of the driver.                        *)
(***************************************************************************)
\* C15: for a vendor output of text, thinking and tool_use blocks, tool_use
\* blocks with an empty input included, the CompletionResponse stream
\* returns has the content and the tool_calls that complete returns for it.
C15_StreamEqualsComplete ==
    (/\ dr_mode = "stream"
     /\ dr_pc = "done"
     /\ dr_ret.ok
     /\ \A i \in DOMAIN dr_vendor : dr_vendor[i].type # "other")
        => /\ dr_ret.val.content = ConvertResponse(dr_vendor).content
           /\ dr_ret.val.tool_calls = ConvertResponse(dr_vendor).tool_calls

(***************************************************************************)
(* Claims about the commands of one agent's browser session.               *)
(***************************************************************************)
\* C16: commands issued for the same agent never execute concurrently: no
\* two tasks are inside BrowserSession::execute for one agent at a time.
C16_CommandsSerializedPerAgent ==
    \A t1 \in Tasks, t2 \in Tasks :
        (t1 # t2 /\ bm_pc[t1] = "execute" /\ bm_pc[t2] = "execute")
            => bm_call[t1].agent # bm_call[t2].agent

\* C17: when send_command(agent, Close) returns, the agent has no session
\* and no Chromium process of the agent is running.
C17_CloseRemovesSession ==
    \A a \in BrowserAgents :
        bm_event = <<"returned", a, "Close">>
            => /\ a \notin DOMAIN sessions
               /\ \A p \in DOMAIN procs : procs[p].agent = a => ~procs[p].alive

(***************************************************************************)
(* Claims about the errors and the removals of the HandRegistry.           *)
(***************************************************************************)
\* C18: whenever a registry call returns an error the instances are as
\* before the call; activate fails with NotFound only for an unknown hand
\* and with AlreadyActive only when an Active instance of the hand exists,
\* the calls on an instance fail with InstanceNotFound only for an id that
\* has no instance.
C18_ErrorLeavesInstances ==
    [][(~hr_ret'.ok)
          => /\ instances' = instances
             /\ hr_ret'.val[1] = "NotFound"
                   => (hr_op'[1] = "activate" /\ hr_op'[2] \notin definitions)
             /\ hr_ret'.val[1] = "AlreadyActive"
                   => (hr_op'[1] = "activate" /\ HasActive(instances, hr_op'[2]))
             /\ hr_ret'.val[1] = "InstanceNotFound"
                   => (hr_op'[1] # "activate" /\ hr_op'[2] \notin DOMAIN instances)]_vars

\* A call on the id of a removed instance fails while another instance is
\* registered.
C18_Witness ==
    /\ ~hr_ret.ok
    /\ hr_ret.val[1] = "InstanceNotFound"
    /\ hr_op[2] \in 1..hr_uuids
    /\ instances # << >>

\* What C19 states but for find_by_agent: a deactivate that succeeds
\* removes exactly its instance and returns it, an id without instance
\* never gets one again and every call on it fails with InstanceNotFound,
\* and activate is refused only because of an instance that is registered.
DeactivateRemoves ==
    /\ (hr_op'[1] = "deactivate" /\ hr_ret'.ok)
          => /\ hr_op'[2] \in DOMAIN instances
             /\ hr_ret'.val = <<hr_op'[2], instances[hr_op'[2]]>>
             /\ DOMAIN instances' = DOMAIN instances \ {hr_op'[2]}
             /\ \A j \in DOMAIN instances' : instances'[j] = instances[j]
    /\ \A id \in (1..hr_uuids) \ DOMAIN instances :
          /\ id \notin DOMAIN instances'
          /\ (hr_op'[1] # "activate" /\ hr_op'[2] = id)
                => hr_ret' = Err("InstanceNotFound", id)
    /\ (hr_op'[1] = "activate" /\ hr_ret' = Err("AlreadyActive", hr_op'[2]))
          => \E j \in DOMAIN instances' :
                /\ instances'[j].hand_id = hr_op'[2]
                /\ instances'[j].status = Status("Active", "")

\* C19: deactivate(id) on an existing instance removes exactly that
\* instance and returns it; afterwards get_instance(id) and find_by_agent
\* of its agent yield nothing, every further call on id fails with
\* InstanceNotFound, and an activate of its hand is not refused because of it.
C19_DeactivateRemoves ==
    [][/\ DeactivateRemoves
       /\ (hr_op'[1] = "deactivate" /\ hr_ret'.ok
              /\ instances[hr_op'[2]].agent_id # None)
             => FindByAgent(instances', instances[hr_op'[2]].agent_id) = {}]_vars

\* C19 as the registry keeps it: find_by_agent of the removed instance's
\* agent yields nothing when no other instance was given the same agent.
C19_DeactivateRemovesOwn ==
    [][/\ DeactivateRemoves
       /\ (hr_op'[1] = "deactivate" /\ hr_ret'.ok
              /\ instances[hr_op'[2]].agent_id # None
              /\ FindByAgent(instances, instances[hr_op'[2]].agent_id) = {hr_op'[2]})
             => FindByAgent(instances', instances[hr_op'[2]].agent_id) = {}]_vars

\* An instance with an agent has been deactivated while another instance
\* stays registered.
C19_Witness ==
    /\ hr_op[1] = "deactivate"
    /\ hr_ret.ok
    /\ hr_ret.val[2].agent_id # None
    /\ instances # << >>

\* C21: check_requirements reports an EnvVar or ApiKey requirement on
\* GEMINI_API_KEY as satisfied when GEMINI_API_KEY or GOOGLE_API_KEY is set
\* and non-empty, and every other EnvVar or ApiKey requirement exactly when
\* its own variable is set and non-empty.
C21_GeminiAcceptsGoogleKey ==
    (hr_op[1] = "check_requirements" /\ hr_ret.ok
        /\ hr_op[3].requirement_type \in {"EnvVar", "ApiKey"})
        => LET env == hr_op[4]
               name == hr_op[3].check_value
               set(v) == env[v] \notin {None, ""}
           IN  hr_ret.val[2] = IF name = "GEMINI_API_KEY"
                               THEN set("GEMINI_API_KEY") \/ set("GOOGLE_API_KEY")
                               ELSE set(name)

(***************************************************************************)
(* Claims about what overflow recovery leaves and reports.                 *)
(***************************************************************************)
\* C22: after recover_from_overflow every ToolResult left in the history
\* has its ToolUse, with the same tool_use_id, in the assistant message
\* immediately before it, when that was so in the history given.
C22_ResultsKeepTheirToolUse ==
    LET HasToolUse(h) ==
            \A i \in DOMAIN h : \A b \in DOMAIN h[i].blocks :
                h[i].blocks[b].type = "ToolResult"
                    => /\ i > 1
                       /\ h[i - 1].role = "assistant"
                       /\ \E u \in DOMAIN h[i - 1].blocks :
                             /\ h[i - 1].blocks[u].type = "ToolUse"
                             /\ h[i - 1].blocks[u].id = h[i].blocks[b].id
    IN  (ov_op = "recover_from_overflow" /\ HasToolUse(ov_input))
            => HasToolUse(messages)

\* C23: recover_from_overflow returns FinalError only when the estimate of
\* the history it leaves exceeds 90% of the context window.
C23_FinalErrorOnlyAboveNinety ==
    (ov_op = "recover_from_overflow" /\ ov_ret.stage = "FinalError")
        => EstimateTokens(messages, system_prompt) > Threshold(context_window, 90)

(***************************************************************************)
(* Fenced code blocks of a text, as Markdown delimits them: a line whose   *)
(* trimmed form starts with three backticks opens a block and the next     *)
(* such line closes it.                                                    *)
(***************************************************************************)
\* Offset p of text lies strictly inside a fenced block: after the first
\* byte of an opening line and before the end of the line closing it.
StrictlyInsideFence(text, p) ==
    LET lines == SplitInclusive(text)
        IsFenceLine(line) == StartsWith(Trim(line), Backticks3)
        \* offset of the first byte of line k, and just past its last byte
        LineStart(k) == Len(Concat(SubSeq(lines, 1, k - 1)))
        LineEnd(k) == Len(Concat(SubSeq(lines, 1, k)))
        \* line k opens a block: a fence line with an even number of fence
        \* lines before it
        OpensFence(k) ==
            /\ IsFenceLine(lines[k])
            /\ Cardinality({j \in 1..(k - 1) : IsFenceLine(lines[j])}) % 2 = 0
        \* line c closes the block that line k opens: the next fence line
        ClosesFence(k, c) ==
            /\ c > k
            /\ IsFenceLine(lines[c])
            /\ \A j \in (k + 1)..(c - 1) : ~IsFenceLine(lines[j])
    IN  \E k \in 1..Len(lines) :
           /\ OpensFence(k)
           /\ LineStart(k) < p
           /\ \A c \in 1..Len(lines) : ClosesFence(k, c) => p < LineEnd(c)

(***************************************************************************)
(* Claims about the CDP connection.                                        *)
(***************************************************************************)
\* C24: when send has returned, by any path, the pending map holds no
\* entry for the id of that request.
C24_NoPendingAfterReturn ==
    \A c \in Callers :
        (cdp_pc[c] = "idle" /\ cdp_ret[c].id # 0) => cdp_ret[c].id \notin pending

\* C25: request ids are never reused; a response frame with id n reaches
\* the caller that sent request n, no other caller, and at most once; a
\* frame whose id has no pending entry, or without id, is dropped and
\* changes nothing for any caller.
C25_FramesRoutedById ==
    [][/\ \A c \in Callers : cdp_id'[c] # cdp_id[c] =>
              /\ cdp_id'[c] >= next_id
              /\ \A o \in Callers : cdp_id'[c] \notin {cdp_id[o], cdp_ret[o].id}
       /\ \A c \in Callers :
              cdp_ret'[c].outcome \in {"result", "cdp_error"} =>
                  cdp_ret'[c].frame = cdp_ret'[c].id
       /\ \A i \in 1..MaxCdpSends : cdp_rx'[i].kind # "empty" => cdp_rx'[i].frame = i
       /\ \A a, b \in 1..Len(cdp_routed') :
              a # b => cdp_routed'[a] # cdp_routed'[b]
       /\ cdp_event'[1] = "dropped" =>
              /\ cdp_event'[2] \notin pending
              /\ UNCHANGED <<pending, cdp_rx, cdp_pc, cdp_id, cdp_ret>>
       /\ cdp_event'[1] = "routed" =>
              /\ cdp_event'[2] \in pending
              /\ \A i \in 1..MaxCdpSends \ {cdp_event'[2]} : cdp_rx'[i] = cdp_rx[i]]_vars

\* C25 witness: caller 1 received the response to its own request while
\* caller 2 is still waiting for its response, and the frame the reader
\* handled last, a second response to caller 1's request, was dropped.
C25_Witness ==
    /\ cdp_ret[1].outcome = "result"
    /\ cdp_pc[1] = "idle"
    /\ cdp_pc[2] = "await"
    /\ cdp_rx[cdp_id[2]].kind = "empty"
    /\ cdp_event = <<"dropped", cdp_ret[1].id>>

C27_FailedLaunchKillsProcess ==
    \A p \in DOMAIN procs : procs[p].owner = "nobody" => ~procs[p].alive

(***************************************************************************)
(* Claims about overlapping registry calls.                                *)
(***************************************************************************)
\* C28: two activate calls for the same hand whose scans both precede the
\* other's insert both return Ok with distinct instance ids, and the two
\* Active instances coexist; each is afterwards deactivated by its own id
\* without touching the other.
C28_OverlappingActivatesBothSucceed ==
    [][/\ \A th \in {1, 2} :
            (hr_scan[th].pc = "scanned" /\ hr_scan'[th].pc = "idle") =>
               /\ hr_ret'.ok
               /\ hr_ret'.val[1] \notin DOMAIN instances
               /\ DOMAIN instances' = DOMAIN instances \cup {hr_ret'.val[1]}
               /\ \A j \in DOMAIN instances : instances'[j] = instances[j]
               /\ instances'[hr_ret'.val[1]] = hr_ret'.val[2]
               /\ hr_ret'.val[2].hand_id = hr_scan[th].hand_id
               /\ hr_ret'.val[2].status = Status("Active", "")
       /\ (hr_op'[1] = "deactivate" /\ hr_op'[2] \in DOMAIN instances) =>
               /\ hr_ret' = Ok(<<hr_op'[2], instances[hr_op'[2]]>>)
               /\ DOMAIN instances' = DOMAIN instances \ {hr_op'[2]}
               /\ \A j \in DOMAIN instances' : instances'[j] = instances[j]]_vars

\* C28 witness: both overlapping activates of one hand have returned, one
\* of the two Active instances has just been deactivated by its id and the
\* other, of the same hand, is still registered and Active.
C28_Witness ==
    /\ hr_op[1] = "deactivate"
    /\ hr_ret.ok
    /\ hr_ret.val[2].status = Status("Active", "")
    /\ \E j \in DOMAIN instances :
          /\ j # hr_ret.val[1]
          /\ instances[j].hand_id = hr_ret.val[2].hand_id
          /\ instances[j].status = Status("Active", "")
    /\ \A th \in {1, 2} : hr_scan[th].pc = "idle"

(***************************************************************************)
(* Claims about pause and resume.                                          *)
(***************************************************************************)
\* C29: pause(id) leaves the instance named by id Paused and resume(id)
\* leaves it Active; either changes only the status and updated_at of that
\* instance: every other instance, and the instance's hand_id, agent_id,
\* config and activated_at, are as before the call.
C29_PauseResumeFrame ==
    [][(hr_op'[1] \in {"pause", "resume"} /\ hr_op'[2] \in DOMAIN instances) =>
          LET id == hr_op'[2]
          IN  /\ hr_ret'.ok
              /\ DOMAIN instances' = DOMAIN instances
              /\ \A j \in DOMAIN instances \ {id} : instances'[j] = instances[j]
              /\ instances'[id].status =
                    IF hr_op'[1] = "pause" THEN Status("Paused", "")
                                           ELSE Status("Active", "")
              /\ instances'[id] =
                    [instances[id] EXCEPT !.status = instances'[id].status,
                                          !.updated_at = instances'[id].updated_at]]_vars

\* C29 witness: an instance that has an agent and was paused has been
\* resumed while a second instance is registered.
C29_Witness ==
    /\ hr_op[1] = "resume"
    /\ hr_ret.ok
    /\ hr_op[2] \in DOMAIN instances
    /\ instances[hr_op[2]].status = Status("Active", "")
    /\ instances[hr_op[2]].agent_id # None
    /\ instances[hr_op[2]].updated_at > instances[hr_op[2]].activated_at + 2
    /\ Cardinality(DOMAIN instances) = 2

(***************************************************************************)
(* Claims about the stream chunker.                                        *)
(***************************************************************************)
\* The trimmed fence line that opened the code block the end of a text is
\* inside, << >> when the text ends outside a block.
OpenFenceLine(text) ==
    LET lines == SplitInclusive(text)
        RECURSIVE st(_)
        st(k) == IF k = 0 THEN [open |-> FALSE, line |-> << >>]
                 ELSE LET prev == st(k - 1)
                          t == Trim(lines[k])
                      IN  IF ~StartsWith(t, Backticks3) THEN prev
                          ELSE IF prev.open THEN [open |-> FALSE, line |-> << >>]
                          ELSE [open |-> TRUE, line |-> t]
    IN  st(Len(lines)).line

\* C20: when try_flush force-closes an open fence, the buffer it leaves is
\* the original opening fence line with its language hint and a newline.
C20_BufferRestartsWithOpeningFence ==
    (ck_op = "try_flush" /\ ck_kind = "force" /\ n_forced = 1)
        => buffer = OpenFenceLine(pushed) \o <<"\n">>

\* C31: the chunks emitted so far followed by the buffer are the pushed
\* text with, for every force-close, the closing fence "\n```\n" and the
\* re-opening fence line inserted where the buffer was split: a push adds
\* its text at the end, a force-close adds the two fence lines at the end
\* and leaves the chunker in the fence, every other call adds nothing.
C31_EmittedPlusBufferIsPushed ==
    [][LET before == emitted \o buffer
           after == emitted' \o buffer'
       IN  /\ ck_op' = "push" =>
                 after = before \o SubSeq(pushed', Len(pushed) + 1, Len(pushed'))
           /\ (ck_op' # "push" /\ ck_kind' # "force") => after = before
           /\ (ck_op' = "try_flush" /\ ck_kind' = "force") =>
                 /\ after = before \o <<"\n", Backtick, Backtick, Backtick, "\n">>
                                   \o <<Backtick, Backtick, Backtick, "\n">>
                 /\ in_code_fence'
                 /\ ck_ret' = buffer \o <<"\n", Backtick, Backtick, Backtick, "\n">>]_vars

\* C31 witness: after a force-close more text was pushed and try_flush
\* returned a further chunk by an ordinary break, leaving text buffered.
C31_Witness ==
    /\ n_forced = 1
    /\ ck_op = "try_flush"
    /\ ck_kind \in {"paragraph", "newline", "sentence", "max"}
    /\ buffer # << >>

\* C32: try_flush never fails on a slice range or a character boundary.
C32_TryFlushNeverPanics == ck_kind # "panic"

\* C33: the fence state depends only on the text pushed, not on how it was
\* split into push calls: it is the state one push of the whole text gives.
C33_FenceStateOfWholeText ==
    in_code_fence =
        PushText([buffer |-> << >>, in_code_fence |-> FALSE,
                  fence_marker |-> << >>], pushed).in_code_fence

\* C34: draining terminates.  Stated by what it needs: try_flush is a
\* function of the chunker state, so a call that returns a chunk and leaves
\* buffer, fence state and marker as they were returns a chunk forever.
C34_DrainMakesProgress ==
    [][(ck_op' = "try_flush" /\ ck_ret' # None
            /\ 1 <= min_chunk_chars /\ min_chunk_chars <= max_chunk_chars)
          => <<buffer', in_code_fence', fence_marker'>>
                 # <<buffer, in_code_fence, fence_marker>>]_vars

\* C30: outside a fence and with at least min_chunk_chars buffered,
\* try_flush cuts after the last paragraph break lying in the window
\* [min_chunk, min(buffer_len, max_chunk)), else after the last newline in
\* the window, else after a sentence terminator in the window; it returns
\* the prefix up to the cut and keeps the rest.  With no break in the
\* window it returns a chunk only when max_chunk_chars are buffered, cut
\* at the largest character boundary not above max_chunk.
C30_BreakPriorities ==
    [][(ck_op' = "try_flush" /\ ~in_code_fence
            /\ Len(buffer) >= min_chunk_chars) =>
          LET hi == Min(Len(buffer), max_chunk_chars)
              At(p) == {i \in min_chunk_chars..(hi - Len(p)) :
                           Slice(buffer, i, i + Len(p)) = p}
              paras == At(<<"\n", "\n">>)
              nls == At(<<"\n">>)
              sents == At(<<".", " ">>) \cup At(<<"!", " ">>) \cup At(<<"?", " ">>)
              Last(S) == CHOOSE i \in S : \A j \in S : j <= i
              Cut(at) == /\ ck_ret' = Slice(buffer, 0, at)
                         /\ buffer' = Slice(buffer, at, Len(buffer))
          IN  /\ ck_kind' # "panic"
              /\ IF paras # {} THEN Cut(Last(paras) + 2)
                 ELSE IF nls # {} THEN Cut(Last(nls) + 1)
                 ELSE IF sents # {} THEN \E i \in sents : Cut(i + 2)
                 ELSE IF Len(buffer) >= max_chunk_chars
                 THEN Cut(Last({i \in 0..max_chunk_chars :
                                   IsCharBoundary(buffer, i)}))
                 ELSE ck_ret' = None /\ buffer' = buffer]_vars

\* C1: a chunk returned by try_flush by any branch other than the
\* force-close split never ends strictly inside a fenced code block of the
\* pushed text.  (Stated for runs without a force-close, where the chunks
\* emitted so far are a prefix of the pushed text and the end of the chunk
\* is the offset Len(emitted) of it.)
C1_ChunkNeverEndsInsideFence ==
    (ck_op = "try_flush" /\ ck_ret # None /\ ck_kind # "force" /\ n_forced = 0)
        => ~StrictlyInsideFence(pushed, Len(emitted))

\* C2 as claimed: once flush_remaining has returned, the chunks returned
\* by try_flush followed by what flush_remaining returned are the
\* concatenation of the pushed texts.
C2_ConcatEqualsPushes ==
    ck_op = "flush_remaining" => emitted = pushed

\* C2 amended: the same, for runs in which try_flush never took the
\* force-close split.
C2_ConcatEqualsPushesNoForce ==
    (ck_op = "flush_remaining" /\ n_forced = 0) => emitted = pushed

\* C2 witness: flush_remaining returned the rest after try_flush had
\* returned at least one chunk, with no force-close split.
C2_Witness ==
    /\ ck_op = "flush_remaining"
    /\ n_forced = 0
    /\ ck_ret # None
    /\ Len(emitted) > Len(ck_ret)

====
